---- MODULE Spec2Model ----
(***************************************************************************)
(* Model of the routing engine of the customer support bot                 *)
(* (backend/app/routes/chat.py): the keyword matcher, the relevance        *)
(* classifier's verdict parsing, the chat handler with its three response  *)
(* sources, the knowledge ingestion that the chat handler reads, the       *)
(* retries of a provider call (utils/llm_integration.py), the validation   *)
(* of a chat request (schemas), the transcript read, the context and       *)
(* metrics of a session (utils/conversation.py), and the semantic matcher  *)
(* (utils/embeddings.py).                                                  *)
(*                                                                         *)
(* Conventions.                                                            *)
(*  - A text is a sequence of tokens.  Texts that the code inspects        *)
(*    (queries, questions, keywords) are sequences of one-character        *)
(*    strings; fixed literal messages of the code are single tokens.       *)
(*  - A confidence is an integer number of thousandths (0.9 is 900);       *)
(*    None is NoConf.                                                      *)
(*  - The handlers are async: a handler runs without interruption up to    *)
(*    its next await, so every action is one such run.                     *)
(***************************************************************************)
EXTENDS Integers, Sequences, FiniteSets, TLC

(* ------------------------------------------------------------------ *)
(* Bounds of the model                                                  *)
(* ------------------------------------------------------------------ *)
MaxTurns == 2
MaxUploads == 2
MaxStoreFailures == 1

(* ------------------------------------------------------------------ *)
(* Program constants                                                    *)
(* ------------------------------------------------------------------ *)
KeyLen == 100
DirectConfidence == 900
AcceptThreshold == 500
RelevanceThreshold == 600
GeneratedConfidence == 650
ContextWindow == 5
NoConf == -1

(* ------------------------------------------------------------------ *)
(* Texts                                                                *)
(* ------------------------------------------------------------------ *)
Lower(c) ==
  CASE c = "A" -> "a"
    [] c = "B" -> "b"
    [] c = "C" -> "c"
    [] OTHER -> c

LowerStr(s) == [i \in 1..Len(s) |-> Lower(s[i])]

Prefix(s, n) == SubSeq(s, 1, IF Len(s) < n THEN Len(s) ELSE n)

\* Python's `s in t` for texts
IsSubstring(s, t) ==
  \E i \in 0..(Len(t) - Len(s)) : SubSeq(t, i + 1, i + Len(s)) = s

\* Python's `x in xs` for a list
InList(x, xs) == \E i \in 1..Len(xs) : xs[i] = x

\* Python's str.split(): the maximal runs of non-blank characters, from the
\* positions where a run starts and where it ends
Split(s) ==
  LET starts == {i \in 1..Len(s) : s[i] # " " /\ (i = 1 \/ s[i - 1] = " ")}
      ends == {i \in 1..Len(s) : s[i] # " " /\ (i = Len(s) \/ s[i + 1] = " ")}
      Nth(set, n) == CHOOSE i \in set : Cardinality({j \in set : j < i}) = n - 1
  IN [n \in 1..Cardinality(starts) |-> SubSeq(s, Nth(starts, n), Nth(ends, n))]

(* ------------------------------------------------------------------ *)
(* The keyword matcher                                                  *)
(* ------------------------------------------------------------------ *)
\* Variant: the share of matched words is not scaled down
WordConfidence_Unscaled(matched, total) == 600 + (1000 * matched) \div total

\* 0.6 + (matched / total) * 0.3 in double arithmetic: for matched = total
\* the sum 0.6 + 0.3 is 0.8999999999999999, strictly below the literal 0.9
WordConfidence(matched, total) ==
  IF matched = total THEN DirectConfidence - 1
  ELSE 600 + (300 * matched) \div total

\* 0.5 + (matched / total) * 0.2
KeywordConfidence(matched, total) == 500 + (200 * matched) \div total

\* Variant: the word rule scores an entry that shares no word with the query
ScoreEntry_BaseScore(query_lower, entry, best) ==
  LET faq_question == entry.key
      direct == IsSubstring(query_lower, faq_question)
                  \/ IsSubstring(faq_question, query_lower)
      question_words == Split(faq_question)
      query_words == Split(query_lower)
      matched_words ==
        Cardinality({i \in 1..Len(question_words) :
                       InList(question_words[i], query_words)})
      afterWords ==
        IF WordConfidence(matched_words, Len(question_words)) > best.confidence
          THEN [match |-> entry, confidence |->
                  WordConfidence(matched_words, Len(question_words)), some |-> TRUE]
          ELSE best
      faq_keywords == entry.keywords
      matched_keywords ==
        Cardinality({i \in 1..Len(faq_keywords) :
                       IsSubstring(LowerStr(faq_keywords[i]), query_lower)})
      afterKeywords ==
        IF faq_keywords # <<>> /\ matched_keywords > 0
             /\ KeywordConfidence(matched_keywords, Len(faq_keywords))
                  > afterWords.confidence
          THEN [match |-> entry, confidence |->
                  KeywordConfidence(matched_keywords, Len(faq_keywords)), some |-> TRUE]
          ELSE afterWords
  IN IF direct
       THEN IF DirectConfidence > best.confidence
              THEN [match |-> entry, confidence |-> DirectConfidence, some |-> TRUE]
              ELSE best
       ELSE afterKeywords

\* One iteration of the loop of search_faq_dataset: the entry and the best
\* (match, confidence) so far give the best after the entry.
ScoreEntry(query_lower, entry, best) ==
  LET faq_question == entry.key
      direct == IsSubstring(query_lower, faq_question)
                  \/ IsSubstring(faq_question, query_lower)
      question_words == Split(faq_question)
      query_words == Split(query_lower)
      matched_words ==
        Cardinality({i \in 1..Len(question_words) :
                       InList(question_words[i], query_words)})
      afterWords ==
        IF matched_words > 0
             /\ WordConfidence(matched_words, Len(question_words)) > best.confidence
          THEN [match |-> entry, confidence |->
                  WordConfidence(matched_words, Len(question_words)), some |-> TRUE]
          ELSE best
      faq_keywords == entry.keywords
      matched_keywords ==
        Cardinality({i \in 1..Len(faq_keywords) :
                       IsSubstring(LowerStr(faq_keywords[i]), query_lower)})
      afterKeywords ==
        IF faq_keywords # <<>> /\ matched_keywords > 0
             /\ KeywordConfidence(matched_keywords, Len(faq_keywords))
                  > afterWords.confidence
          THEN [match |-> entry, confidence |->
                  KeywordConfidence(matched_keywords, Len(faq_keywords)), some |-> TRUE]
          ELSE afterWords
  IN IF direct
       THEN IF DirectConfidence > best.confidence
              THEN [match |-> entry, confidence |-> DirectConfidence, some |-> TRUE]
              ELSE best
       ELSE afterKeywords

NoEntry == [key |-> <<>>, answer |-> <<>>, id |-> 0, keywords |-> <<>>]

RECURSIVE ScanDataset(_, _, _, _)
ScanDataset(query_lower, dataset, i, best) ==
  IF i > Len(dataset) THEN best
  ELSE ScanDataset(query_lower, dataset, i + 1,
                   ScoreEntry(query_lower, dataset[i], best))

NoMatch == [id |-> 0, answer |-> <<>>, confidence |-> 0, found |-> FALSE]

\* search_faq_dataset: (faq_id, answer, confidence_score, found_match)
search_faq_dataset(query, dataset) ==
  LET best == ScanDataset(LowerStr(query), dataset, 1,
                          [match |-> NoEntry, confidence |-> 0, some |-> FALSE])
  IN IF best.some /\ best.confidence >= AcceptThreshold
       THEN [id |-> best.match.id, answer |-> best.match.answer,
             confidence |-> best.confidence, found |-> TRUE]
       ELSE NoMatch

(* ------------------------------------------------------------------ *)
(* The in-memory dataset                                                *)
(* ------------------------------------------------------------------ *)
\* FAQ_DATASET[key] = value on a dict that keeps insertion order: an existing
\* key keeps its place and takes the new value
RECURSIVE DictPut(_, _)
DictPut(d, item) ==
  IF d = <<>> THEN <<item>>
  ELSE IF d[1].key = item.key THEN <<item>> \o Tail(d)
  ELSE <<d[1]>> \o DictPut(Tail(d), item)

RECURSIVE LoadFrom(_, _, _)
LoadFrom(rows, i, d) ==
  IF i > Len(rows) THEN d
  ELSE LoadFrom(rows, i + 1,
         IF rows[i].is_active
           THEN DictPut(d, [key |-> Prefix(LowerStr(rows[i].question), KeyLen),
                            answer |-> rows[i].answer,
                            id |-> i,
                            keywords |-> rows[i].keywords])
           ELSE d)

\* Variant: the dataset is built from every row, active or not
load_faq_dataset_AllRows(rows) ==
  LoadFrom([i \in 1..Len(rows) |-> [rows[i] EXCEPT !.is_active = TRUE]], 1, <<>>)

\* load_faq_dataset: the dataset built from the rows of faq_documents
load_faq_dataset(rows) == LoadFrom(rows, 1, <<>>)

ActiveIds(rows) == {i \in 1..Len(rows) : rows[i].is_active}

(* ------------------------------------------------------------------ *)
(* The relevance classifier                                             *)
(* ------------------------------------------------------------------ *)
\* JSON scalars: a tag, a number (a boolean as 0/1, a number in thousandths)
\* and a text
JNull == [t |-> "null", n |-> 0, s |-> <<>>]
JBool(b) == [t |-> "bool", n |-> IF b THEN 1 ELSE 0, s |-> <<>>]
JNum(n) == [t |-> "num", n |-> n, s |-> <<>>]
JStr(s) == [t |-> "str", n |-> 0, s |-> s]

\* The provider's raw text, as tokens: braces, other text, and "key": scalar
\* members of an object
LB == [k |-> "{", v |-> JNull]
RB == [k |-> "}", v |-> JNull]
Junk == [k |-> "text", v |-> JNull]
Member(k, v) == [k |-> k, v |-> v]
IsMember(tok) == tok.k \notin {"{", "}", "text"}

\* str.find('{'): the 0-based index of the first '{', or -1
FindLB(text) ==
  IF \E i \in 1..Len(text) : text[i] = LB
    THEN (CHOOSE i \in 1..Len(text) :
            text[i] = LB /\ \A j \in 1..(i - 1) : text[j] # LB) - 1
    ELSE -1

\* str.rfind('}'): the 0-based index of the last '}', or -1
RFindRB(text) ==
  IF \E i \in 1..Len(text) : text[i] = RB
    THEN (CHOOSE i \in 1..Len(text) :
            text[i] = RB /\ \A j \in (i + 1)..Len(text) : text[j] # RB) - 1
    ELSE -1

\* json.loads on a slice: it decodes exactly an object of scalar members
JsonDecodes(json_str) ==
  /\ Len(json_str) >= 2
  /\ json_str[1] = LB
  /\ json_str[Len(json_str)] = RB
  /\ \A i \in 2..(Len(json_str) - 1) : IsMember(json_str[i])

\* dict.get(key, default) on the decoded object (a repeated key keeps its
\* last value)
JsonGet(json_str, key, default) ==
  IF \E i \in 1..Len(json_str) : json_str[i].k = key
    THEN json_str[CHOOSE i \in 1..Len(json_str) :
                    json_str[i].k = key
                    /\ \A j \in (i + 1)..Len(json_str) : json_str[j].k # key].v
    ELSE default

FailClosed ==
  [is_related |-> JBool(FALSE), category |-> JStr(<<>>), confidence |-> JNum(0)]

\* The parse of the provider's text in check_relevance_with_ai
ParseVerdict(response_text) ==
  LET json_start == FindLB(response_text)
      json_end == RFindRB(response_text) + 1
      json_str == SubSeq(response_text, json_start + 1, json_end)
  IN IF json_start >= 0 /\ json_end > json_start /\ JsonDecodes(json_str)
       THEN [is_related |-> JsonGet(json_str, "is_related", JBool(FALSE)),
             category |-> JsonGet(json_str, "category", JStr(<<>>)),
             confidence |-> JsonGet(json_str, "confidence", JNum(0))]
       ELSE FailClosed

\* Variant: the except clause answers "related" instead of failing closed
check_relevance_with_ai_FailOpen(outcome) ==
  IF outcome.ok THEN ParseVerdict(outcome.text)
  ELSE [is_related |-> JBool(TRUE), category |-> JStr(<<>>),
        confidence |-> JNum(1000)]

\* check_relevance_with_ai on the outcome of the provider call
check_relevance_with_ai(outcome) ==
  IF outcome.ok THEN ParseVerdict(outcome.text) ELSE FailClosed

\* Python truth value of a scalar
Truthy(v) ==
  CASE v.t = "bool" -> v.n = 1
    [] v.t = "num" -> v.n # 0
    [] v.t = "str" -> v.s # <<>>
    [] OTHER -> FALSE

\* Variant: a related verdict needs a confidence strictly above the threshold
Decide_StrictThreshold(verdict) ==
  IF ~Truthy(verdict.is_related) THEN "offtopic"
  ELSE IF verdict.confidence.t \in {"num", "bool"}
    THEN (IF (IF verdict.confidence.t = "bool"
                THEN 1000 * verdict.confidence.n
                ELSE verdict.confidence.n) > RelevanceThreshold
            THEN "related" ELSE "offtopic")
    ELSE "TypeError"

\* Variant: a truthy is_related is enough, whatever the confidence
Decide_AnyConfidence(verdict) ==
  IF ~Truthy(verdict.is_related) THEN "offtopic"
  ELSE IF verdict.confidence.t \in {"num", "bool"} THEN "related"
  ELSE "TypeError"

\* `is_related and relevance_confidence >= 0.6`: the comparison is evaluated
\* only for a truthy is_related, and raises TypeError for None or a string
Decide(verdict) ==
  IF ~Truthy(verdict.is_related) THEN "offtopic"
  ELSE IF verdict.confidence.t \in {"num", "bool"}
    THEN (IF (IF verdict.confidence.t = "bool"
                THEN 1000 * verdict.confidence.n
                ELSE verdict.confidence.n) >= RelevanceThreshold
            THEN "related" ELSE "offtopic")
    ELSE "TypeError"

(* ------------------------------------------------------------------ *)
(* Inputs                                                               *)
(* ------------------------------------------------------------------ *)
SessionIds == {"s1", "s2"}
CustomerIds == {"c1"}

\* "a b" equals the question of Entry1 up to case; "c a" shares one word with
\* each of the two questions
Queries == { <<"a", " ", "b">>, <<"c", " ", "a">> }

Entry1 == [question |-> <<"A", " ", "b">>, answer |-> <<"answer-1">>]
Entry2 == [question |-> <<"b", " ", "c">>, answer |-> <<"answer-2">>]

\* What parse_faq_content finds in an uploaded file: (question, answer) pairs,
\* none when no Q:/A: format is detected
Batches == { <<>>, <<Entry1, Entry2>> }

\* uuid4().hex[:8] draws one of finitely many suffixes
TicketIds == {"ticket-1", "ticket-2", "ticket-3"}

Category == Member("category", JStr(<<"billing">>))

\* Raw texts the provider returns to the classification prompt
ClassifierTexts ==
  { <<LB, Member("is_related", JBool(TRUE)), Category,
      Member("confidence", JNum(800)), RB>>,
    <<Junk, LB, Member("is_related", JBool(TRUE)), Category,
      Member("confidence", JNum(600)), RB, Junk>>,
    <<LB, Member("is_related", JBool(TRUE)), Member("confidence", JNum(500)), RB>>,
    <<LB, Member("is_related", JBool(FALSE)), Member("confidence", JNum(900)), RB>>,
    <<Junk>>,
    <<RB, Junk, LB>>,
    <<LB, Junk, RB>>,
    <<LB, Member("is_related", JBool(TRUE)), RB, LB, RB>>,
    <<LB, Member("is_related", JBool(TRUE)), RB>>,
    <<LB, Member("is_related", JBool(TRUE)), Member("confidence", JNull), RB>>,
    <<LB, Member("is_related", JStr(<<"no">>)), Category,
      Member("confidence", JNum(900)), RB>> }

\* Outcomes of a provider call after its retries: a text, or an exception
Raised == [ok |-> FALSE, text |-> <<>>]
ClassifierOutcomes == {[ok |-> TRUE, text |-> x] : x \in ClassifierTexts} \cup {Raised}
GenerationTexts == { <<"generated-answer">> }
GenerationOutcomes ==
  {[ok |-> TRUE, text |-> x] : x \in GenerationTexts} \cup {Raised}

(* ------------------------------------------------------------------ *)
(* State                                                                *)
(* ------------------------------------------------------------------ *)
VARIABLES
  faq_documents,   \* table faq_documents: rows, the id is the index
  FAQ_DATASET,     \* the process-wide dataset, in insertion order
  users,           \* table users: customer ids, the id is the index
  sessions,        \* table sessions: rows, the id is the index
  messages,        \* table messages, in creation order
  escalations,     \* table escalations, in creation order
  turns,           \* the chat requests: position and local variables
  run,             \* the latest run of the chat handler and what it read
  upload,          \* the upload requests: position and local variables
  storeFailures,   \* how many commits have failed so far
  searched,        \* the latest direct call of search_faq_dataset
  attempts,        \* the provider requests of each chat request
  conversation_metrics,  \* table conversation_metrics, in creation order
  answered         \* the latest response of a read or delete request

vars == <<faq_documents, FAQ_DATASET, users, sessions, messages, escalations,
          turns, run, upload, storeFailures, searched, attempts,
          conversation_metrics, answered>>

TurnIds == 1..MaxTurns

NoResponse ==
  [bot_response |-> <<>>, confidence_score |-> NoConf, response_type |-> "none",
   requires_escalation |-> FALSE]

\* A chat request: its position and the local variables of chat() that are
\* read after an await
IdleTurn ==
  [pc |-> "idle", message |-> <<>>, session |-> 0, user |-> 0,
   conversation_context |-> <<>>, verdict |-> FailClosed,
   response |-> NoResponse, error |-> "none"]

\* A request that has left the handler: the local variables are gone, the
\* response or the error went to the client
Returned(pc, response, error) ==
  [IdleTurn EXCEPT !.pc = pc, !.response = response, !.error = error]

\* A run of the handler between two awaits: the turn, the step, the match of
\* search_faq_dataset, how the outcome of the provider call read, the
\* dataset the run loaded, and whether the ticket id it drew was stored
\* already
NoRun ==
  [turn |-> 0, step |-> "none", faq |-> NoMatch, classified |-> "none",
   verdict |-> FailClosed, generation |-> "none", generated |-> <<>>,
   loaded |-> {}, loadedDuring |-> 0, collided |-> FALSE]

UploadIds == 1..MaxUploads

\* An upload request: its position, the pairs found in its file, the active
\* ids when it arrived, the ids it created and the active ids when it
\* returned, and whether it answered success
IdleUpload ==
  [pc |-> "idle", batch |-> <<>>, before |-> {}, created |-> {}, after |-> {},
   ok |-> FALSE]

\* The upload requests that are awaiting the read of their file
Reading == {u \in UploadIds : upload[u].pc = "reading"}

\* No direct call of the matcher yet
NoSearch == [done |-> FALSE, query |-> <<>>, result |-> NoMatch]

\* The provider requests of a chat request: the failed attempts of the call
\* in progress, the attempts of the call that ended last, and the requests of
\* the turn so far
NoAttempts == [tries |-> 0, last |-> 0, requests |-> 0]

\* No read or delete request yet
NoAnswer == [route |-> "none", args |-> <<>>, status |-> 0, body |-> <<>>]

Init ==
  /\ faq_documents = <<>>
  /\ FAQ_DATASET = <<>>
  /\ users = <<>>
  /\ sessions = <<>>
  /\ messages = <<>>
  /\ escalations = <<>>
  /\ turns = [t \in TurnIds |-> IdleTurn]
  /\ run = NoRun
  /\ upload = [u \in UploadIds |-> IdleUpload]
  /\ storeFailures = 0
  /\ searched = NoSearch
  /\ attempts = [t \in TurnIds |-> NoAttempts]
  /\ conversation_metrics = <<>>
  /\ answered = NoAnswer

(* ------------------------------------------------------------------ *)
(* Storage                                                              *)
(* ------------------------------------------------------------------ *)
\* The commits of a chat turn in the order of the code; a turn's `fail` input
\* names the commit that raises, "none" when every commit succeeds
CommitNo(c) ==
  CASE c = "user" -> 1
    [] c = "session" -> 2
    [] c = "user_msg" -> 3
    [] c = "ticket" -> 4
    [] c = "bot_msg" -> 5
    [] OTHER -> 6

CommitPoints == {"user", "session", "user_msg", "ticket", "bot_msg", "none"}

\* db.add(row); db.commit() on a table
db_add(table, row) == Append(table, row)

\* db.query(User).filter(User.customer_id == ...).first(): the row's id
UserId(rows, customer_id) == CHOOSE i \in 1..Len(rows) : rows[i] = customer_id

\* db.query(DBSession).filter(DBSession.session_id == ...).first(): the row's id
SessionRowId(rows, session_id) ==
  CHOOSE i \in 1..Len(rows) : rows[i].session_id = session_id

\* datetime.utcnow() at an insert into messages, in seconds: the clock is
\* taken to advance between two inserts
utcnow(msgs) == IF msgs = <<>> THEN 0 ELSE msgs[Len(msgs)].created_at + 1

\* db.add(message); db.commit(): the column default stamps created_at
add_message(msgs, row) == Append(msgs, [row EXCEPT !.created_at = utcnow(msgs)])

\* Variant: the query has no filter on the session
SessionMessages_AllSessions(msgs, sid) == msgs

\* .filter(Message.session_id == session.id)
SessionMessages(msgs, sid) == SelectSeq(msgs, LAMBDA m : m.session_id = sid)

\* build_conversation_context: the last max_messages messages of the session,
\* oldest first, each "<Role>: <content>", joined by newlines
RECURSIVE Render(_)
Render(msgs) ==
  IF msgs = <<>> THEN <<>>
  ELSE (<<IF msgs[1].sender = "user" THEN "Customer: " ELSE "Support: ">>
          \o msgs[1].content)
       \o (IF Len(msgs) = 1 THEN <<>> ELSE <<"\n">> \o Render(Tail(msgs)))

Reverse(xs) == [i \in 1..Len(xs) |-> xs[Len(xs) + 1 - i]]

\* Variant: the rows come newest first
OrderByCreatedAt_NewestFirst(rows) ==
  LET Before(i, j) ==
        \/ rows[i].created_at > rows[j].created_at
        \/ rows[i].created_at = rows[j].created_at /\ i < j
      Place(j) == Cardinality({i \in 1..Len(rows) : Before(i, j)}) + 1
  IN [n \in 1..Len(rows) |-> rows[CHOOSE j \in 1..Len(rows) : Place(j) = n]]

\* ORDER BY created_at: a row's place is the number of rows that come before
\* it (rows of equal created_at in the order of their ids)
OrderByCreatedAt(rows) ==
  LET Before(i, j) ==
        \/ rows[i].created_at < rows[j].created_at
        \/ rows[i].created_at = rows[j].created_at /\ i < j
      Place(j) == Cardinality({i \in 1..Len(rows) : Before(i, j)}) + 1
  IN [n \in 1..Len(rows) |-> rows[CHOOSE j \in 1..Len(rows) : Place(j) = n]]

\* Variant: the limited rows are rendered newest first
build_conversation_context_NewestFirst(msgs, sid, max_messages) ==
  LET newest_first == Reverse(OrderByCreatedAt(SessionMessages(msgs, sid)))
      limited == Prefix(newest_first, max_messages)
  IN Render(limited)

\* order_by(created_at.desc()).limit(max_messages).all(), messages.reverse(),
\* and the join of the rendered lines
build_conversation_context(msgs, sid, max_messages) ==
  LET newest_first == Reverse(OrderByCreatedAt(SessionMessages(msgs, sid)))
      limited == Prefix(newest_first, max_messages)
  IN Render(Reverse(limited))

UserMessage(t, sid, content) ==
  [session_id |-> sid, sender |-> "user", content |-> content,
   response_type |-> "none", confidence_score |-> NoConf,
   relevant_faq_ids |-> <<>>, created_at |-> 0, turn |-> t]

\* Variant: the bot message is stored without its confidence
BotMessage_NoScore(t, sid, response, faq_id) ==
  [session_id |-> sid, sender |-> "bot", content |-> response.bot_response,
   response_type |-> response.response_type,
   confidence_score |-> NoConf,
   relevant_faq_ids |-> IF faq_id # 0 THEN <<faq_id>> ELSE <<>>,
   created_at |-> 0, turn |-> t]

\* Message(sender="bot", ...) of the handler's last step
BotMessage(t, sid, response, faq_id) ==
  [session_id |-> sid, sender |-> "bot", content |-> response.bot_response,
   response_type |-> response.response_type,
   confidence_score |-> response.confidence_score,
   relevant_faq_ids |-> IF faq_id # 0 THEN <<faq_id>> ELSE <<>>,
   created_at |-> 0, turn |-> t]

\* Escalation(...) of the two escalation branches
Escalation(t, ticket, sid, uid, reason, query, priority) ==
  [escalation_id |-> ticket, session_id |-> sid, user_id |-> uid,
   reason |-> reason, initial_query |-> query, status |-> "pending",
   priority |-> priority, turn |-> t]

\* Variant: the FAQ branch reports the confidence of a direct match
FaqResponse_FixedConfidence(faq) ==
  [bot_response |-> faq.answer, confidence_score |-> DirectConfidence,
   response_type |-> "faq", requires_escalation |-> FALSE]

FaqResponse(faq) ==
  [bot_response |-> faq.answer, confidence_score |-> faq.confidence,
   response_type |-> "faq", requires_escalation |-> FALSE]

\* Variant: the generated answer reports the confidence of a direct match
GeneratedResponse_HighConfidence(text) ==
  [bot_response |-> text, confidence_score |-> DirectConfidence,
   response_type |-> "ai_generated", requires_escalation |-> FALSE]

GeneratedResponse(text) ==
  [bot_response |-> text, confidence_score |-> GeneratedConfidence,
   response_type |-> "ai_generated", requires_escalation |-> FALSE]

\* Variant: the escalation after a failed generation does not set
\* requires_escalation
EscalatedResponse_NotFlagged(ticket) ==
  [bot_response |-> <<"connecting-to-support", "Ticket ID: ", ticket>>,
   confidence_score |-> 0, response_type |-> "escalated",
   requires_escalation |-> FALSE]

\* Variant: the escalation after a failed generation keeps the confidence of
\* a generated answer
EscalatedResponse_Confident(ticket) ==
  [bot_response |-> <<"connecting-to-support", "Ticket ID: ", ticket>>,
   confidence_score |-> GeneratedConfidence, response_type |-> "escalated",
   requires_escalation |-> TRUE]

EscalatedResponse(ticket) ==
  [bot_response |-> <<"connecting-to-support", "Ticket ID: ", ticket>>,
   confidence_score |-> 0, response_type |-> "escalated",
   requires_escalation |-> TRUE]

\* Variant: the off-topic branch labels its response as a generated answer
OutOfScopeResponse_Mislabelled ==
  [bot_response |-> <<"not-related-to-our-offerings">>,
   confidence_score |-> 0, response_type |-> "ai_generated",
   requires_escalation |-> TRUE]

OutOfScopeResponse ==
  [bot_response |-> <<"not-related-to-our-offerings">>,
   confidence_score |-> 0, response_type |-> "out_of_scope",
   requires_escalation |-> TRUE]

(* ------------------------------------------------------------------ *)
(* The chat handler                                                     *)
(* ------------------------------------------------------------------ *)
FailureAllowed(fail) == fail # "none" => storeFailures < MaxStoreFailures

CountFailure(fail) ==
  storeFailures' = IF fail = "none" THEN storeFailures ELSE storeFailures + 1

\* The first run of chat(): from the request to the FAQ answer, or to the
\* await of the classification call
ChatStart(t, session_id, customer_id, message, fail) ==
  LET dataset == load_faq_dataset(faq_documents)
      hasUser == \E u \in 1..Len(users) : users[u] = customer_id
      users1 == IF hasUser THEN users ELSE db_add(users, customer_id)
      user == UserId(users1, customer_id)
      hasSession == \E i \in 1..Len(sessions) : sessions[i].session_id = session_id
      sessions1 ==
        IF hasSession THEN sessions
        ELSE db_add(sessions, [session_id |-> session_id, user_id |-> user,
                               status |-> "active"])
      session == SessionRowId(sessions1, session_id)
      messages1 == add_message(messages, UserMessage(t, session, message))
      conversation_context ==
        build_conversation_context(messages1, session, ContextWindow)
      faq == search_faq_dataset(message, dataset)
      faq_found == faq.found /\ faq.confidence >= AcceptThreshold
      f == CommitNo(fail)
      stored == f > 3
      read == [NoRun EXCEPT !.turn = t, !.step = "start",
                            !.faq = IF stored THEN faq ELSE NoMatch,
                            !.loaded = {dataset[i].id : i \in 1..Len(dataset)},
                            !.loadedDuring =
                               IF Reading # {}
                                 THEN CHOOSE u \in Reading :
                                        \A v \in Reading : v <= u
                                 ELSE 0]
  IN /\ turns[t].pc = "idle"
     /\ \A u \in 1..(t - 1) : turns[u].pc # "idle"
     /\ FailureAllowed(fail)
     /\ fail = "user" => ~hasUser
     /\ fail = "session" => ~hasSession
     /\ fail # "ticket"
     /\ fail = "bot_msg" => faq_found
     /\ FAQ_DATASET' = dataset
     /\ users' = IF f > 1 THEN users1 ELSE users
     /\ sessions' = IF f > 2 THEN sessions1 ELSE sessions
     /\ messages' =
          IF ~stored THEN messages
          ELSE IF faq_found /\ f > 5
            THEN add_message(messages1,
                   BotMessage(t, session, FaqResponse(faq), faq.id))
            ELSE messages1
     /\ turns' = [turns EXCEPT ![t] =
          IF ~stored \/ (faq_found /\ f <= 5)
            THEN Returned("fault", NoResponse, "PersistenceError")
          ELSE IF faq_found
            THEN Returned("done", FaqResponse(faq), "none")
          ELSE [IdleTurn EXCEPT !.pc = "classify", !.message = message,
                                !.session = session, !.user = user,
                                !.conversation_context = conversation_context]]
     /\ run' = read
     /\ CountFailure(fail)
     /\ UNCHANGED <<faq_documents, escalations, upload, searched,
                 attempts, conversation_metrics, answered>>

UsedTickets == {escalations[e].escalation_id : e \in 1..Len(escalations)}

FirstTicket == "ticket-1"

\* The unused ticket ids are interchangeable: a draw that hits none of the
\* stored ids is taken to be the first unused one
FreshTicket ==
  IF "ticket-1" \notin UsedTickets THEN "ticket-1"
  ELSE IF "ticket-2" \notin UsedTickets THEN "ticket-2"
  ELSE "ticket-3"

\* An escalation branch and the storing of its bot message: the ticket and the
\* session status in one commit, the bot message in the next.  A ticket id
\* that is already stored violates the unique constraint of escalation_id.
EscalateAndStore(t, turn, ticket, reason, priority, response, fail) ==
  LET collision ==
        \E e \in 1..Len(escalations) : escalations[e].escalation_id = ticket
      ticketFails == fail = "ticket" \/ collision
      stored == ~ticketFails /\ fail # "bot_msg"
  IN /\ fail \in {"none", "ticket", "bot_msg"}
     /\ collision => fail = "none"
     /\ ~collision => ticket = FreshTicket
     /\ escalations' =
          IF ticketFails THEN escalations
          ELSE db_add(escalations,
                 Escalation(t, ticket, turn.session, turn.user, reason,
                            turn.message, priority))
     /\ sessions' =
          IF ticketFails THEN sessions
          ELSE [sessions EXCEPT ![turn.session].status = "escalated"]
     /\ messages' =
          IF stored
            THEN add_message(messages, BotMessage(t, turn.session, response, 0))
            ELSE messages
     /\ turns' = [turns EXCEPT ![t] =
          IF stored
            THEN Returned("done", response, "none")
            ELSE Returned("fault", NoResponse, "PersistenceError")]

\* Variant: no inner except clause, every exception reaches the last one
ExceptClause_OuterOnly(site) == "http_500"

\* The except clause that takes an exception of the provider: the one of
\* check_relevance_with_ai, the one around the generation call, or the
\* handler's last one, which answers 500
ExceptClause(site) ==
  CASE site = "classification" -> "fail_closed"
    [] site = "generation" -> "escalate"
    [] OTHER -> "http_500"

\* How a classification outcome reads: the call raised, no JSON object could
\* be decoded, an object whose is_related is no boolean or whose confidence
\* is no number, or a well-typed verdict
OutcomeKind(outcome) ==
  LET json_start == FindLB(outcome.text)
      json_end == RFindRB(outcome.text) + 1
      json_str == SubSeq(outcome.text, json_start + 1, json_end)
  IN IF ~outcome.ok THEN "raised"
     ELSE IF ~(json_start >= 0 /\ json_end > json_start /\ JsonDecodes(json_str))
       THEN "unparsed"
     ELSE IF JsonGet(json_str, "is_related", JNull).t = "bool"
               /\ JsonGet(json_str, "confidence", JNull).t = "num"
       THEN "typed"
     ELSE "untyped"

\* The run of chat() after the classification call returned or raised
ClassifyReturn(t, outcome, ticket, fail) ==
  LET verdict == check_relevance_with_ai(outcome)
      decision == Decide(verdict)
      turn == [turns[t] EXCEPT !.verdict = verdict]
  IN /\ turns[t].pc = "classify"
     /\ FailureAllowed(fail)
     /\ CASE ~outcome.ok /\ ExceptClause("classification") # "fail_closed" ->
               /\ fail = "none"
               /\ ticket = FirstTicket
               /\ turns' = [turns EXCEPT ![t] =
                    Returned("fault", NoResponse, "ProviderError")]
               /\ UNCHANGED <<sessions, messages, escalations>>
          [] decision = "TypeError" ->
               /\ fail = "none"
               /\ ticket = FirstTicket
               /\ turns' = [turns EXCEPT ![t] =
                    Returned("fault", NoResponse, "TypeError")]
               /\ UNCHANGED <<sessions, messages, escalations>>
          [] decision = "related" ->
               /\ fail = "none"
               /\ ticket = FirstTicket
               /\ turns' = [turns EXCEPT ![t] = [turn EXCEPT !.pc = "generate"]]
               /\ UNCHANGED <<sessions, messages, escalations>>
          [] OTHER ->
               EscalateAndStore(t, turn, ticket, <<"off-topic">>, "low",
                                OutOfScopeResponse, fail)
     /\ run' = [NoRun EXCEPT !.turn = t, !.step = "classify",
                             !.classified = OutcomeKind(outcome),
                             !.verdict = verdict,
                             !.collided =
                                /\ outcome.ok \/ ExceptClause("classification")
                                                    = "fail_closed"
                                /\ decision = "offtopic"
                                /\ ticket \in UsedTickets]
     /\ CountFailure(fail)
     /\ UNCHANGED <<faq_documents, FAQ_DATASET, users, upload, searched,
                 conversation_metrics, answered>>

\* The run of chat() after the generation call returned or raised
GenerateReturn(t, outcome, ticket, fail) ==
  LET turn == turns[t]
  IN /\ turns[t].pc = "generate"
     /\ FailureAllowed(fail)
     /\ IF outcome.ok
          THEN /\ fail \in {"none", "bot_msg"}
               /\ ticket = FirstTicket
               /\ messages' =
                    IF fail = "none"
                      THEN add_message(messages,
                             BotMessage(t, turn.session,
                                        GeneratedResponse(outcome.text), 0))
                      ELSE messages
               /\ turns' = [turns EXCEPT ![t] =
                    IF fail = "none"
                      THEN Returned("done", GeneratedResponse(outcome.text), "none")
                      ELSE Returned("fault", NoResponse, "PersistenceError")]
               /\ UNCHANGED <<sessions, escalations>>
          ELSE IF ExceptClause("generation") # "escalate"
          THEN /\ fail = "none"
               /\ ticket = FirstTicket
               /\ turns' = [turns EXCEPT ![t] =
                    Returned("fault", NoResponse, "ProviderError")]
               /\ UNCHANGED <<sessions, messages, escalations>>
          ELSE EscalateAndStore(t, turn, ticket,
                 <<"related-to">> \o turn.verdict.category.s \o <<"generation-failed">>,
                 "normal", EscalatedResponse(ticket), fail)
     /\ run' = [NoRun EXCEPT !.turn = t, !.step = "generate",
                             !.verdict = turn.verdict,
                             !.generation = IF outcome.ok THEN "text" ELSE "raised",
                             !.generated = outcome.text,
                             !.collided =
                                /\ ~outcome.ok
                                /\ ExceptClause("generation") = "escalate"
                                /\ ticket \in UsedTickets]
     /\ CountFailure(fail)
     /\ UNCHANGED <<faq_documents, FAQ_DATASET, users, upload, searched,
                 conversation_metrics, answered>>

\* The client disconnects while the handler awaits the provider
Cancel(t) ==
  /\ turns[t].pc \in {"classify", "generate"}
  /\ turns' = [turns EXCEPT ![t] = Returned("cancelled", NoResponse, "none")]
  /\ run' = [NoRun EXCEPT !.turn = t, !.step = "cancel"]
  /\ UNCHANGED <<faq_documents, FAQ_DATASET, users, sessions, messages,
                 escalations, upload, storeFailures, searched,
                 attempts, conversation_metrics, answered>>

(* ------------------------------------------------------------------ *)
(* The retries of a provider call                                       *)
(* ------------------------------------------------------------------ *)
\* @retry(stop=stop_after_attempt(3), ...) on OpenRouterProvider.generate_response
stop_after_attempt == 3

\* An attempt of the call a turn awaits raises (an HTTP error, a timeout after
\* 30 seconds, a body without choices) and is not the last one allowed: the
\* decorator waits 2 to 10 seconds and calls again
AttemptFails(t) ==
  /\ turns[t].pc \in {"classify", "generate"}
  /\ attempts[t].tries + 1 < stop_after_attempt
  /\ attempts' = [attempts EXCEPT ![t].tries = @ + 1, ![t].requests = @ + 1]
  /\ UNCHANGED <<faq_documents, FAQ_DATASET, users, sessions, messages,
                 escalations, turns, run, upload, storeFailures, searched,
                 conversation_metrics, answered>>

\* The call a turn awaits ends: an attempt returns its text, or the last
\* attempt allowed raises and the decorator raises RetryError
CallEnds(t, outcome) ==
  /\ ~outcome.ok => attempts[t].tries + 1 = stop_after_attempt
  /\ attempts' = [attempts EXCEPT ![t] =
                    [tries |-> 0, last |-> @.tries + 1,
                     requests |-> @.requests + 1]]

(* ------------------------------------------------------------------ *)
(* Request validation                                                   *)
(* ------------------------------------------------------------------ *)
MessageMax == 5000

\* Variant: the message has no upper bound
ChatRequestValid_NoMaxLength(session_id, customer_id, message) ==
  /\ session_id # ""
  /\ customer_id # ""
  /\ Len(message) >= 1

\* ChatRequest: session_id and customer_id of at least 1 character, message
\* of 1 to 5000 characters
ChatRequestValid(session_id, customer_id, message) ==
  /\ session_id # ""
  /\ customer_id # ""
  /\ Len(message) >= 1
  /\ Len(message) <= MessageMax

\* POST /chat: the body is validated against ChatRequest before chat() is
\* called; a body that fails is answered 422 and chat() does not run
chat(t, session_id, customer_id, message, fail) ==
  IF ChatRequestValid(session_id, customer_id, message)
    THEN ChatStart(t, session_id, customer_id, message, fail)
    ELSE /\ turns[t].pc = "idle"
         /\ \A u \in 1..(t - 1) : turns[u].pc # "idle"
         /\ fail = "none"
         /\ turns' = [turns EXCEPT ![t] =
              Returned("rejected", NoResponse, "ValidationError")]
         /\ run' = [NoRun EXCEPT !.turn = t, !.step = "reject"]
         /\ UNCHANGED <<faq_documents, FAQ_DATASET, users, sessions, messages,
                        escalations, upload, storeFailures, searched, attempts,
                        conversation_metrics, answered>>

(* ------------------------------------------------------------------ *)
(* Knowledge ingestion                                                  *)
(* ------------------------------------------------------------------ *)
QuestionMax == 1000
AnswerMax == 5000

\* No embedding: the column is NULL (None), written as the empty sequence;
\* no vector the encoder returns is empty
NoEmbedding == <<>>

\* The encoder returns 384 numbers; here a vector has two components
Dimensions == 2
ZeroVector == [d \in 1..Dimensions |-> 0]

\* embedder.encode(text): a fixed function of the text, here the numbers of
\* characters "a" and "b" in it, in either case
Encode(text) ==
  << Cardinality({i \in 1..Len(text) : Lower(text[i]) = "a"}),
     Cardinality({i \in 1..Len(text) : Lower(text[i]) = "b"}) >>

\* generate_embeddings: the encoder's vector for the text, as a list
generate_embeddings(text) == Encode(text)

\* generate_embeddings when the encoder raises: the zero vector
generate_embeddings_Failed == ZeroVector

\* The words of common_words that are longer than 3 characters (the shorter
\* ones are dropped by the length test already)
CommonWords ==
  { <<"w", "i", "t", "h">>,
    <<"f", "r", "o", "m">>,
    <<"b", "e", "e", "n">>,
    <<"h", "a", "v", "e">>,
    <<"d", "o", "e", "s">>,
    <<"w", "i", "l", "l">>,
    <<"w", "o", "u", "l", "d">>,
    <<"c", "o", "u", "l", "d">>,
    <<"s", "h", "o", "u", "l", "d">>,
    <<"m", "i", "g", "h", "t">>,
    <<"m", "u", "s", "t">>,
    <<"s", "h", "a", "l", "l">>,
    <<"e", "l", "s", "e">>,
    <<"t", "h", "i", "s">>,
    <<"t", "h", "a", "t">>,
    <<"w", "h", "i", "c", "h">>,
    <<"w", "h", "a", "t">>,
    <<"w", "h", "e", "n">>,
    <<"w", "h", "e", "r", "e">>,
    <<"e", "a", "c", "h">>,
    <<"e", "v", "e", "r", "y">>,
    <<"b", "o", "t", "h">>,
    <<"e", "i", "t", "h", "e", "r">>,
    <<"n", "e", "i", "t", "h", "e", "r">>,
    <<"s", "o", "m", "e">> }

Punctuation == {".", ",", "!", "?", ";", ":", "\"", "'"}

\* word.strip(".,!?;:\"'")
Strip(word) ==
  LET kept == {i \in 1..Len(word) : word[i] \notin Punctuation}
      first == CHOOSE i \in kept : \A j \in kept : i <= j
      last == CHOOSE i \in kept : \A j \in kept : j <= i
  IN IF kept = {} THEN <<>> ELSE SubSeq(word, first, last)

\* The loop that removes duplicates while preserving order
RECURSIVE Unique(_, _)
Unique(keywords, unique_keywords) ==
  IF keywords = <<>> THEN unique_keywords
  ELSE Unique(Tail(keywords),
              IF InList(keywords[1], unique_keywords) THEN unique_keywords
              ELSE Append(unique_keywords, keywords[1]))

MaxKeywords == 5

\* extract_keywords(text): the words longer than 3 characters that are no
\* common words, stripped of punctuation, without duplicates, the first 5
extract_keywords(text) ==
  LET words == Split(LowerStr(text))
      kept == SelectSeq(words, LAMBDA word : Len(word) > 3 /\ word \notin CommonWords)
      keywords == [i \in 1..Len(kept) |-> Strip(kept[i])]
  IN Prefix(Unique(keywords, <<>>), MaxKeywords)

\* The rows process_faq_pdf stores for the pairs of a file
RECURSIVE StoreProcessed(_, _)
StoreProcessed(rows, batch) ==
  IF batch = <<>> THEN rows
  ELSE StoreProcessed(
         IF batch[1].question # <<>> /\ batch[1].answer # <<>>
           THEN Append(rows,
                  [question |-> Prefix(batch[1].question, QuestionMax),
                   answer |-> Prefix(batch[1].answer, AnswerMax),
                   keywords |->
                     extract_keywords(batch[1].question \o <<" ">> \o batch[1].answer),
                   embedding |->
                     generate_embeddings(batch[1].question \o <<" ">> \o batch[1].answer),
                   is_active |-> TRUE])
           ELSE rows,
         Tail(batch))

\* The rows upload_faq_pdf stores for the pairs of a file
RECURSIVE StoreBatch(_, _)
StoreBatch(rows, batch) ==
  IF batch = <<>> THEN rows
  ELSE StoreBatch(
         IF batch[1].question # <<>> /\ batch[1].answer # <<>>
           THEN Append(rows, [question |-> Prefix(batch[1].question, QuestionMax),
                              answer |-> Prefix(batch[1].answer, AnswerMax),
                              keywords |-> <<>>,
                              embedding |-> NoEmbedding,
                              is_active |-> TRUE])
           ELSE rows,
         Tail(batch))

\* upload_faq_pdf up to `await file.read()`: every active row is deactivated
\* and the change committed
UploadStart(u, batch) ==
  /\ upload[u].pc = "idle"
  /\ \A v \in 1..(u - 1) : upload[v].pc # "idle"
  /\ faq_documents' = [i \in 1..Len(faq_documents) |->
                         [faq_documents[i] EXCEPT !.is_active = FALSE]]
  /\ upload' = [upload EXCEPT ![u] =
                  [IdleUpload EXCEPT !.pc = "reading", !.batch = batch,
                                     !.before = ActiveIds(faq_documents)]]
  /\ UNCHANGED <<FAQ_DATASET, users, sessions, messages, escalations, turns,
                 run, storeFailures, searched,
                 attempts, conversation_metrics, answered>>

\* upload_faq_pdf after the read: no pair detected is a 400 response, else the
\* pairs are stored and the dataset reloaded
UploadFinish(u) ==
  /\ upload[u].pc = "reading"
  /\ IF upload[u].batch = <<>>
       THEN /\ upload' = [upload EXCEPT ![u].pc = "done"]
            /\ UNCHANGED <<faq_documents, FAQ_DATASET>>
       ELSE /\ faq_documents' = StoreBatch(faq_documents, upload[u].batch)
            /\ FAQ_DATASET' = load_faq_dataset(faq_documents')
            /\ upload' = [upload EXCEPT ![u] =
                 [@ EXCEPT !.pc = "done", !.ok = TRUE, !.batch = <<>>,
                           !.created = (Len(faq_documents) + 1)..Len(faq_documents'),
                           !.after = ActiveIds(faq_documents')]]
  /\ UNCHANGED <<users, sessions, messages, escalations, turns, run,
                 storeFailures, searched,
                 attempts, conversation_metrics, answered>>

\* Variant: deleting flips the active flag of the row
delete_faq_Toggle(faq_id) ==
  /\ IF faq_id \in 1..Len(faq_documents)
       THEN /\ faq_documents' =
                 [faq_documents EXCEPT ![faq_id].is_active = ~@]
            /\ FAQ_DATASET' = load_faq_dataset(faq_documents')
            /\ answered' = [NoAnswer EXCEPT !.route = "delete_faq", !.status = 200]
       ELSE /\ answered' = [NoAnswer EXCEPT !.route = "delete_faq", !.status = 404]
            /\ UNCHANGED <<faq_documents, FAQ_DATASET>>
  /\ UNCHANGED <<users, sessions, messages, escalations, turns, run, upload,
                 storeFailures, searched,
                 attempts, conversation_metrics>>

\* delete_faq: 404 for an unknown id, else the row is deactivated and the
\* dataset reloaded
delete_faq(faq_id) ==
  /\ IF faq_id \in 1..Len(faq_documents)
       THEN /\ faq_documents' = [faq_documents EXCEPT ![faq_id].is_active = FALSE]
            /\ FAQ_DATASET' = load_faq_dataset(faq_documents')
            /\ answered' = [NoAnswer EXCEPT !.route = "delete_faq", !.status = 200]
       ELSE /\ answered' = [NoAnswer EXCEPT !.route = "delete_faq", !.status = 404]
            /\ UNCHANGED <<faq_documents, FAQ_DATASET>>
  /\ UNCHANGED <<users, sessions, messages, escalations, turns, run, upload,
                 storeFailures, searched,
                 attempts, conversation_metrics>>

\* clear_all_faqs: every active row is deactivated and the dataset reloaded
clear_all_faqs ==
  /\ faq_documents' = [i \in 1..Len(faq_documents) |->
                         [faq_documents[i] EXCEPT !.is_active = FALSE]]
  /\ FAQ_DATASET' = load_faq_dataset(faq_documents')
  /\ UNCHANGED <<users, sessions, messages, escalations, turns, run, upload,
                 storeFailures, searched,
                 attempts, conversation_metrics, answered>>

(* ------------------------------------------------------------------ *)
(* Transcript read                                                      *)
(* ------------------------------------------------------------------ *)
\* The rows of messages with their ids
WithIds(msgs) ==
  [i \in 1..Len(msgs) |->
     [id |-> i, session_id |-> msgs[i].session_id, sender |-> msgs[i].sender,
      content |-> msgs[i].content, response_type |-> msgs[i].response_type,
      confidence_score |-> msgs[i].confidence_score,
      created_at |-> msgs[i].created_at]]

\* Variant: an unknown session id is stored as a new session, as chat() does
get_session_messages_GetOrCreate(session_id) ==
  LET known == \E i \in 1..Len(sessions) : sessions[i].session_id = session_id
      sessions1 ==
        IF known THEN sessions
        ELSE db_add(sessions, [session_id |-> session_id, user_id |-> 0,
                               status |-> "active"])
      session == SessionRowId(sessions1, session_id)
      found == OrderByCreatedAt(SessionMessages(WithIds(messages), session))
  IN /\ sessions' = sessions1
     /\ answered' =
          [route |-> "get_session_messages", args |-> <<session_id>>,
           status |-> 200,
           body |-> [n \in 1..Len(found) |->
                      [id |-> found[n].id, sender |-> found[n].sender,
                       content |-> found[n].content,
                       response_type |-> found[n].response_type,
                       confidence_score |-> found[n].confidence_score,
                       created_at |-> found[n].created_at]]]
     /\ UNCHANGED <<faq_documents, FAQ_DATASET, users, messages,
                    escalations, turns, run, upload, storeFailures, searched,
                    attempts, conversation_metrics>>

\* get_session_messages: 404 for an unknown session id, else the messages of
\* the session ordered by created_at
get_session_messages(session_id) ==
  /\ answered' =
       IF \E i \in 1..Len(sessions) : sessions[i].session_id = session_id
         THEN LET session == SessionRowId(sessions, session_id)
                  found == OrderByCreatedAt(SessionMessages(WithIds(messages), session))
              IN [route |-> "get_session_messages", args |-> <<session_id>>,
                  status |-> 200,
                  body |-> [n \in 1..Len(found) |->
                             [id |-> found[n].id, sender |-> found[n].sender,
                              content |-> found[n].content,
                              response_type |-> found[n].response_type,
                              confidence_score |-> found[n].confidence_score,
                              created_at |-> found[n].created_at]]]
         ELSE [route |-> "get_session_messages", args |-> <<session_id>>,
               status |-> 404, body |-> <<>>]
  /\ UNCHANGED <<faq_documents, FAQ_DATASET, users, sessions, messages,
                 escalations, turns, run, upload, storeFailures, searched,
                 attempts, conversation_metrics>>

(* ------------------------------------------------------------------ *)
(* Specification                                                        *)
(* ------------------------------------------------------------------ *)
\* Session ids are opaque: a request for a session that is not stored yet
\* carries the first unused id
KnownOrNext(session_id) ==
  \/ \E i \in 1..Len(sessions) : sessions[i].session_id = session_id
  \/ /\ session_id = "s1"
  \/ /\ session_id = "s2"
     /\ \E i \in 1..Len(sessions) : sessions[i].session_id = "s1"

\* No chat request has arrived yet
Quiet == \A t \in TurnIds : turns[t].pc = "idle"

\* The knowledge base is ingested first, then the chat traffic arrives: the
\* turns run concurrently with each other, commits may fail
Next ==
  \/ \E t \in TurnIds, s \in SessionIds, c \in CustomerIds, m \in Queries,
        fail \in CommitPoints :
        Reading = {} /\ KnownOrNext(s) /\ ChatStart(t, s, c, m, fail)
  \/ \E t \in TurnIds, o \in ClassifierOutcomes, k \in TicketIds,
        fail \in CommitPoints :
        ClassifyReturn(t, o, k, fail) /\ UNCHANGED attempts
  \/ \E t \in TurnIds, o \in GenerationOutcomes, k \in TicketIds,
        fail \in CommitPoints :
        GenerateReturn(t, o, k, fail) /\ UNCHANGED attempts
  \/ \E t \in TurnIds : Cancel(t)
  \/ \E u \in UploadIds, b \in Batches : Quiet /\ Reading = {} /\ UploadStart(u, b)
  \/ \E u \in UploadIds : Quiet /\ UploadFinish(u)

Spec == Init /\ [][Next]_vars

\* The chat traffic arrives while the knowledge base is ingested: storage is
\* reliable, the provider raises or returns a related verdict
IngestOutcomes ==
  {Raised,
   [ok |-> TRUE, text |-> <<LB, Member("is_related", JBool(TRUE)), Category,
                            Member("confidence", JNum(800)), RB>>]}

NextIngest ==
  \/ \E t \in TurnIds, m \in Queries : ChatStart(t, "s1", "c1", m, "none")
  \/ \E t \in TurnIds, o \in IngestOutcomes, k \in TicketIds :
        ClassifyReturn(t, o, k, "none") /\ UNCHANGED attempts
  \/ \E t \in TurnIds, o \in GenerationOutcomes, k \in TicketIds :
        GenerateReturn(t, o, k, "none") /\ UNCHANGED attempts
  \/ \E u \in UploadIds, b \in Batches : Reading = {} /\ UploadStart(u, b)
  \/ \E u \in UploadIds : UploadFinish(u)

SpecIngest == Init /\ [][NextIngest]_vars

\* The knowledge base under ingestion, delete and clear-all requests, with
\* uploads that overlap, and the chat turns that read it: storage is reliable
\* and the provider is down
DeleteIds == {1, 3, 5}

NextKnowledge ==
  \/ \E t \in TurnIds, m \in Queries : ChatStart(t, "s1", "c1", m, "none")
  \/ \E t \in TurnIds, k \in TicketIds :
        ClassifyReturn(t, Raised, k, "none") /\ UNCHANGED attempts
  \/ \E u \in UploadIds, b \in Batches : UploadStart(u, b)
  \/ \E u \in UploadIds : UploadFinish(u)
  \/ \E id \in DeleteIds : delete_faq(id)
  \/ clear_all_faqs
  \/ \E s \in {"s1", "s9"} : get_session_messages(s)

SpecKnowledge == Init /\ [][NextKnowledge]_vars

(* ------------------------------------------------------------------ *)
(* What the two ingestion paths store                                   *)
(* ------------------------------------------------------------------ *)
MaxStored == 4

\* process_faq_pdf(pdf_path, db): nothing for a file without pairs, else the
\* pairs are stored with their keywords and embedding in one commit; the
\* active rows stay active and the dataset is not reloaded
process_faq_pdf(batch) ==
  /\ Len(faq_documents) + Len(batch) <= MaxStored
  /\ faq_documents' =
       IF batch = <<>> THEN faq_documents ELSE StoreProcessed(faq_documents, batch)
  /\ UNCHANGED <<FAQ_DATASET, users, sessions, messages, escalations, turns,
                 run, upload, storeFailures, searched, attempts,
                 conversation_metrics, answered>>

\* "abca" and a run of dots that passes the 1000 characters
LongQuestion ==
  [i \in 1..(QuestionMax + 1) |->
     IF i <= 4 THEN <<"a", "b", "c", "a">>[i] ELSE IF i = 5 THEN " " ELSE "."]

\* "cabb" and a run of dots that passes the 5000 characters
LongAnswer ==
  [i \in 1..(AnswerMax + 1) |->
     IF i <= 4 THEN <<"c", "a", "b", "b">>[i] ELSE IF i = 5 THEN " " ELSE "."]

\* "This abca. Abca b" / "cab, with": a common word, a word twice up to case
\* and punctuation, a short word, a word of 4 characters with its comma
Entry3 ==
  [question |-> <<"t", "h", "i", "s", " ", "a", "b", "c", "a", ".", " ",
                  "A", "b", "c", "a", " ", "b">>,
   answer |-> <<"c", "a", "b", ",", " ", "w", "i", "t", "h">>]

StoreBatches ==
  { <<>>,
    <<[question |-> LongQuestion, answer |-> <<"o", "k">>]>>,
    <<[question |-> <<"b", " ", "c">>, answer |-> LongAnswer], Entry3>>,
    <<Entry3, Entry1>> }

NextStore ==
  \/ \E u \in UploadIds, b \in StoreBatches : Reading = {} /\ UploadStart(u, b)
  \/ \E u \in UploadIds : UploadFinish(u)
  \/ \E b \in StoreBatches : process_faq_pdf(b)

SpecStore == Init /\ [][NextStore]_vars

(* ------------------------------------------------------------------ *)
(* Context and metrics of a stored session                              *)
(* ------------------------------------------------------------------ *)
\* A direct call build_conversation_context(session, db, max_messages)
ContextFor(session, max_messages) ==
  /\ session \in 1..Len(sessions)
  /\ answered' = [route |-> "build_conversation_context",
                  args |-> <<session, max_messages>>, status |-> 200,
                  body |-> build_conversation_context(messages, session,
                                                      max_messages)]
  /\ UNCHANGED <<faq_documents, FAQ_DATASET, users, sessions, messages,
                 escalations, turns, run, upload, storeFailures, searched,
                 attempts, conversation_metrics>>

\* duration_minutes is None
NoDuration == -1

RECURSIVE Sum(_)
Sum(xs) == IF xs = <<>> THEN 0 ELSE xs[1] + Sum(Tail(xs))

\* get_conversation_metrics(session, db): the counts, the mean of the bot
\* confidences that are not None (in thousandths, rounded down), the minutes
\* from the first to the last row of the query, and the escalated flag
get_conversation_metrics(session, msgs) ==
  LET found == SessionMessages(msgs, session)
      user_messages == SelectSeq(found, LAMBDA m : m.sender = "user")
      bot_messages == SelectSeq(found, LAMBDA m : m.sender = "bot")
      scored == SelectSeq(bot_messages, LAMBDA m : m.confidence_score # NoConf)
      confidence_scores == [i \in 1..Len(scored) |-> scored[i].confidence_score]
      duration ==
        IF found # <<>>
          THEN (found[Len(found)].created_at - found[1].created_at) \div 60
          ELSE NoDuration
  IN [total_messages |-> Len(found),
      user_messages |-> Len(user_messages),
      bot_messages |-> Len(bot_messages),
      average_confidence |->
        IF confidence_scores # <<>>
          THEN Sum(confidence_scores) \div Len(confidence_scores) ELSE 0,
      duration_minutes |-> duration,
      is_escalated |-> sessions[session].status = "escalated"]

MetricsRow(session, metrics_data) ==
  [session_id |-> session,
   total_messages |-> metrics_data.total_messages,
   user_messages |-> metrics_data.user_messages,
   bot_messages |-> metrics_data.bot_messages,
   average_confidence_score |-> metrics_data.average_confidence,
   resolution_time_minutes |-> metrics_data.duration_minutes,
   was_escalated |-> metrics_data.is_escalated]

MetricsOf(session) ==
  {i \in 1..Len(conversation_metrics) :
     conversation_metrics[i].session_id = session}

\* Variant: every recomputation adds a row
update_conversation_metrics_Insert(session) ==
  /\ session \in 1..Len(sessions)
  /\ conversation_metrics' =
       db_add(conversation_metrics,
              MetricsRow(session, get_conversation_metrics(session, messages)))
  /\ UNCHANGED <<faq_documents, FAQ_DATASET, users, sessions, messages,
                 escalations, turns, run, upload, storeFailures, searched,
                 attempts, answered>>

\* update_conversation_metrics(session, db): the first metrics row of the
\* session, created when there is none, takes the recomputed values
update_conversation_metrics(session) ==
  /\ session \in 1..Len(sessions)
  /\ conversation_metrics' =
       LET row == MetricsRow(session, get_conversation_metrics(session, messages))
       IN IF MetricsOf(session) = {}
            THEN db_add(conversation_metrics, row)
            ELSE [conversation_metrics EXCEPT
                    ![CHOOSE i \in MetricsOf(session) :
                        \A j \in MetricsOf(session) : i <= j] = row]
  /\ UNCHANGED <<faq_documents, FAQ_DATASET, users, sessions, messages,
                 escalations, turns, run, upload, storeFailures, searched,
                 attempts, answered>>

MaxMessages == 3

\* Window sizes: below and above the length of a stored session, and the
\* default of chat.py
ContextWindows == {1, 2, ContextWindow}

\* Creation times in seconds
Times == {0, 30, 60, 185, 240}

Kinds == {"user", "ai_generated", "out_of_scope"}

Names == <<"m1", "m2", "m3", "m4", "m5">>

\* The n-th stored message: of a customer, or a bot message as chat() stores it
StoredMessage(n, session, kind, at) ==
  IF kind = "user"
    THEN [UserMessage(0, session, <<"question", Names[n]>>)
            EXCEPT !.created_at = at]
  ELSE IF kind = "ai_generated"
    THEN [BotMessage(0, session,
                     GeneratedResponse(<<"generated-answer", Names[n]>>), 0)
            EXCEPT !.created_at = at]
  ELSE [BotMessage(0, session, OutOfScopeResponse, 0) EXCEPT !.created_at = at]

\* In every session a bot message answers an earlier customer message
Answering(history) ==
  \A n \in 1..Len(history) :
    history[n].sender = "bot" =>
      Cardinality({i \in 1..n : history[i].session_id = history[n].session_id
                                  /\ history[i].sender = "bot"})
        <= Cardinality({i \in 1..n : history[i].session_id = history[n].session_id
                                       /\ history[i].sender = "user"})

\* The tables messages can hold after some chat turns on two sessions: the
\* rows in creation order, with increasing creation times
StoredHistories ==
  UNION {
    {history \in
       {[n \in 1..k |-> StoredMessage(n, shape[n][1], shape[n][2], at[n])] :
          shape \in [1..k -> {1, 2} \X Kinds],
          at \in {f \in [1..k -> Times] : \A i, j \in 1..k : i < j => f[i] < f[j]}} :
       Answering(history)} : k \in 0..MaxMessages}

TicketNames == <<"ticket-1", "ticket-2", "ticket-3", "ticket-4", "ticket-5">>

\* The tickets that the out-of-scope answers of a history have created
TicketsFor(history) ==
  LET answers == SelectSeq(history, LAMBDA m : m.response_type = "out_of_scope")
  IN [e \in 1..Len(answers) |->
        Escalation(0, TicketNames[e], answers[e].session_id, 1, <<"off-topic">>,
                   <<"question">>, "low")]

InitSession ==
  /\ messages \in StoredHistories
  /\ sessions =
       [i \in 1..2 |->
          [session_id |-> <<"s1", "s2">>[i], user_id |-> 1,
           status |-> IF \E n \in 1..Len(messages) :
                            /\ messages[n].session_id = i
                            /\ messages[n].response_type = "out_of_scope"
                        THEN "escalated" ELSE "active"]]
  /\ escalations = TicketsFor(messages)
  /\ users = <<"c1">>
  /\ faq_documents = <<>>
  /\ FAQ_DATASET = <<>>
  /\ turns = [t \in TurnIds |-> IdleTurn]
  /\ run = NoRun
  /\ upload = [u \in UploadIds |-> IdleUpload]
  /\ storeFailures = 0
  /\ searched = NoSearch
  /\ attempts = [t \in TurnIds |-> NoAttempts]
  /\ conversation_metrics = <<>>
  /\ answered = NoAnswer

NextSession ==
  \/ \E session \in 1..2, n \in ContextWindows : ContextFor(session, n)
  \/ \E session \in 1..2 : update_conversation_metrics(session)

SpecSession == InitSession /\ [][NextSession]_vars

(* ------------------------------------------------------------------ *)
(* Chat requests as they arrive, and transcript reads                   *)
(* ------------------------------------------------------------------ *)
\* A message of 5001 characters
LongMessage == [i \in 1..(MessageMax + 1) |-> "a"]

RequestSessionIds == {"s1", "s2", ""}
RequestCustomerIds == {"c1", ""}
RequestMessages == Queries \cup {<<>>, LongMessage}
ReadSessionIds == {"s1", "s2", "s9"}

\* Requests with valid and invalid bodies on an empty knowledge base, and
\* transcript reads at any moment: storage is reliable
NextRequests ==
  \/ \E t \in TurnIds, s \in RequestSessionIds, c \in RequestCustomerIds,
        m \in RequestMessages :
        (s = "" \/ KnownOrNext(s)) /\ chat(t, s, c, m, "none")
  \/ \E t \in TurnIds, o \in IngestOutcomes, k \in TicketIds :
        ClassifyReturn(t, o, k, "none") /\ UNCHANGED attempts
  \/ \E t \in TurnIds, o \in GenerationOutcomes, k \in TicketIds :
        GenerateReturn(t, o, k, "none") /\ UNCHANGED attempts
  \/ \E s \in ReadSessionIds : get_session_messages(s)

SpecRequests == Init /\ [][NextRequests]_vars

(* ------------------------------------------------------------------ *)
(* Chat turns with the attempts of their provider calls                 *)
(* ------------------------------------------------------------------ *)
\* Turns on one session with an empty knowledge base: every provider call
\* goes through its attempts, storage is reliable, no drawn ticket id is
\* stored already, the client stays connected
NextRetry ==
  \/ \E t \in TurnIds, m \in Queries : chat(t, "s1", "c1", m, "none")
  \/ \E t \in TurnIds : AttemptFails(t)
  \/ \E t \in TurnIds, o \in ClassifierOutcomes, k \in TicketIds :
        CallEnds(t, o) /\ ClassifyReturn(t, o, k, "none") /\ ~run'.collided
  \/ \E t \in TurnIds, o \in GenerationOutcomes, k \in TicketIds :
        CallEnds(t, o) /\ GenerateReturn(t, o, k, "none") /\ ~run'.collided

SpecRetry == Init /\ [][NextRetry]_vars

(* ------------------------------------------------------------------ *)
(* Chat turns over a stored knowledge base                              *)
(* ------------------------------------------------------------------ *)
\* Rows of faq_documents: a question, a question with a keyword, an
\* inactive row
RoutedRows ==
  { [question |-> <<"a", " ", "b">>, answer |-> <<"answer-1">>,
     keywords |-> <<>>, embedding |-> NoEmbedding, is_active |-> TRUE],
    [question |-> <<"b", " ", "c">>, answer |-> <<"answer-2">>,
     keywords |-> << <<"d">> >>,
     embedding |-> generate_embeddings(<<"b", " ", "c", " ", "answer-2">>),
     is_active |-> TRUE],
    [question |-> <<"e">>, answer |-> <<"answer-3">>,
     keywords |-> <<>>, embedding |-> NoEmbedding, is_active |-> FALSE] }

\* Messages: the first question, a word of it, the keyword, and a text that
\* only the inactive row contains
RoutedQueries == { <<"a", " ", "b">>, <<"c", " ", "a">>, <<"d">>, <<"e">> }

MaxRouted == 2

InitRouting ==
  /\ faq_documents \in UNION {[1..k -> RoutedRows] : k \in 0..MaxRouted}
  /\ FAQ_DATASET = <<>>
  /\ users = <<>>
  /\ sessions = <<>>
  /\ messages = <<>>
  /\ escalations = <<>>
  /\ turns = [t \in TurnIds |-> IdleTurn]
  /\ run = NoRun
  /\ upload = [u \in UploadIds |-> IdleUpload]
  /\ storeFailures = 0
  /\ searched = NoSearch
  /\ attempts = [t \in TurnIds |-> NoAttempts]
  /\ conversation_metrics = <<>>
  /\ answered = NoAnswer

\* No request is inside the handler
NoneInFlight == \A t \in TurnIds : turns[t].pc \notin {"classify", "generate"}

\* Turns on one session, one after the other: every provider call goes
\* through its attempts, storage is reliable, no drawn ticket id is stored
\* already, the client stays connected
NextRouting ==
  \/ \E t \in TurnIds, m \in RoutedQueries :
        NoneInFlight /\ chat(t, "s1", "c1", m, "none")
  \/ \E t \in TurnIds : AttemptFails(t)
  \/ \E t \in TurnIds, o \in ClassifierOutcomes, k \in TicketIds :
        CallEnds(t, o) /\ ClassifyReturn(t, o, k, "none") /\ ~run'.collided
  \/ \E t \in TurnIds, o \in GenerationOutcomes, k \in TicketIds :
        CallEnds(t, o) /\ GenerateReturn(t, o, k, "none") /\ ~run'.collided

SpecRouting == InitRouting /\ [][NextRouting]_vars

(* ------------------------------------------------------------------ *)
(* Chat turns of two customers                                          *)
(* ------------------------------------------------------------------ *)
TwoCustomers == {"c1", "c2"}

\* Concurrent turns of two customers on the sessions, with an empty
\* knowledge base: storage is reliable, no drawn ticket id is stored already
NextOwners ==
  \/ \E t \in TurnIds, s \in SessionIds, c \in TwoCustomers, m \in Queries :
        KnownOrNext(s) /\ chat(t, s, c, m, "none")
  \/ \E t \in TurnIds, o \in ClassifierOutcomes, k \in TicketIds :
        /\ ClassifyReturn(t, o, k, "none") /\ ~run'.collided
        /\ UNCHANGED attempts
  \/ \E t \in TurnIds, o \in GenerationOutcomes, k \in TicketIds :
        /\ GenerateReturn(t, o, k, "none") /\ ~run'.collided
        /\ UNCHANGED attempts

SpecOwners == Init /\ [][NextOwners]_vars

(* ------------------------------------------------------------------ *)
(* The keyword matcher on its own                                       *)
(* ------------------------------------------------------------------ *)
MaxRows == 3

Row(question, answer, keywords, is_active) ==
  [question |-> question, answer |-> answer, keywords |-> keywords,
   embedding |-> IF keywords = <<>> THEN NoEmbedding
                 ELSE generate_embeddings(question \o <<" ">> \o answer),
   is_active |-> is_active]

\* Rows of faq_documents: two questions equal up to case, a question inside
\* another, an empty and a blank question, keywords as process_faq_pdf
\* stores them, a question that repeats a word, an inactive row
MatcherRows ==
  { Row(<<"a", " ", "b">>, <<"answer-1">>, <<>>, TRUE),
    Row(<<"A", " ", "b">>, <<"answer-2">>, <<>>, TRUE),
    Row(<<"a">>, <<"answer-3">>, <<>>, TRUE),
    Row(<<"b", " ", "c">>, <<"answer-4">>, << <<"d">> >>, TRUE),
    Row(<<>>, <<"answer-5">>, <<>>, TRUE),
    Row(<<" ">>, <<"answer-6">>, <<>>, TRUE),
    Row(<<"c">>, <<"answer-7">>, << <<"A">>, <<"e">> >>, TRUE),
    Row(<<"a", " ", "b">>, <<"answer-8">>, <<>>, FALSE),
    Row(<<"a", " ", "a", " ", "b">>, <<"answer-9">>, <<>>, TRUE) }

MatcherQueries ==
  { <<"a", " ", "b">>, <<"A", " ", "B">>, <<"a">>, <<"b", " ", "a">>,
    <<"c", " ", "d">>, <<"e">>, <<" ">>, <<"B", " ", "C">> }

RowsUpTo(n) == UNION {[1..k -> MatcherRows] : k \in 0..n}

InitMatcher ==
  /\ faq_documents \in RowsUpTo(MaxRows)
  /\ FAQ_DATASET = <<>>
  /\ users = <<>>
  /\ sessions = <<>>
  /\ messages = <<>>
  /\ escalations = <<>>
  /\ turns = [t \in TurnIds |-> IdleTurn]
  /\ run = NoRun
  /\ upload = [u \in UploadIds |-> IdleUpload]
  /\ storeFailures = 0
  /\ searched = NoSearch
  /\ attempts = [t \in TurnIds |-> NoAttempts]
  /\ conversation_metrics = <<>>
  /\ answered = NoAnswer

\* load_faq_dataset(db) followed by search_faq_dataset(query, FAQ_DATASET),
\* as at the head of chat()
Search(query) ==
  /\ FAQ_DATASET' = load_faq_dataset(faq_documents)
  /\ searched' = [done |-> TRUE, query |-> query,
                  result |-> search_faq_dataset(query, FAQ_DATASET')]
  /\ UNCHANGED <<faq_documents, users, sessions, messages, escalations, turns,
                 run, upload, storeFailures, attempts, conversation_metrics,
                 answered>>

NextMatcher == \E q \in MatcherQueries : Search(q)

SpecMatcher == InitMatcher /\ [][NextMatcher]_vars

(* ------------------------------------------------------------------ *)
(* The semantic matcher on its own                                      *)
(* ------------------------------------------------------------------ *)
\* Similarities and thresholds are in thousandths
ISqrt(n) == CHOOSE k \in 0..1000 : k * k <= n /\ n < (k + 1) * (k + 1)

Dot(vec1, vec2) == Sum([d \in 1..Len(vec1) |-> vec1[d] * vec2[d]])

\* cosine_similarity: 0.0 for a zero vector and for vectors of different
\* lengths (np.dot raises, the except clause returns 0.0), else the cosine
\* clamped to [0, 1]
cosine_similarity(vec1, vec2) ==
  IF Len(vec1) # Len(vec2) THEN 0
  ELSE IF Dot(vec1, vec1) = 0 \/ Dot(vec2, vec2) = 0 THEN 0
  ELSE IF Dot(vec1, vec2) <= 0 THEN 0
  ELSE ISqrt((1000000 * Dot(vec1, vec2) * Dot(vec1, vec2))
               \div (Dot(vec1, vec1) * Dot(vec2, vec2)))

\* db.query(FAQDocument).filter(is_active == True).all(): the ids of the
\* active rows in table order
RECURSIVE ActiveList(_, _)
ActiveList(rows, i) ==
  IF i > Len(rows) THEN <<>>
  ELSE (IF rows[i].is_active THEN <<i>> ELSE <<>>) \o ActiveList(rows, i + 1)

\* The loop over the active rows: a row without an embedding is skipped, a
\* row below min_similarity is not appended
RECURSIVE Similarities(_, _, _, _)
Similarities(rows, ids, query_embedding, min_similarity) ==
  IF ids = <<>> THEN <<>>
  ELSE LET faq == rows[Head(ids)]
           similarity == cosine_similarity(query_embedding, faq.embedding)
           rest == Similarities(rows, Tail(ids), query_embedding, min_similarity)
       IN IF faq.embedding # NoEmbedding /\ similarity >= min_similarity
          THEN << [id |-> Head(ids), similarity |-> similarity] >> \o rest
          ELSE rest

\* A sort that reverses the ascending order: equal similarities come out in
\* the reverse of their order in the list
SortBySimilarity_Reversed(pairs) ==
  LET Place(i) ==
        1 + Cardinality({j \in 1..Len(pairs) :
              \/ pairs[j].similarity > pairs[i].similarity
              \/ pairs[j].similarity = pairs[i].similarity /\ j > i})
  IN [r \in 1..Len(pairs) |-> pairs[CHOOSE i \in 1..Len(pairs) : Place(i) = r]]

\* similarities.sort(key=lambda x: x[1], reverse=True): descending, and
\* stable (equal similarities keep their order in the list), so a pair
\* comes after the greater ones and the equal ones that precede it
SortBySimilarity(pairs) ==
  LET Place(i) ==
        1 + Cardinality({j \in 1..Len(pairs) :
              \/ pairs[j].similarity > pairs[i].similarity
              \/ pairs[j].similarity = pairs[i].similarity /\ j < i})
  IN [r \in 1..Len(pairs) |-> pairs[CHOOSE i \in 1..Len(pairs) : Place(i) = r]]

\* search_similar_faqs(query, db, top_k, min_similarity); encodes tells
\* whether the encoder returned a vector for the query
search_similar_faqs(query, encodes, top_k, min_similarity) ==
  LET query_embedding == IF encodes THEN generate_embeddings(query)
                         ELSE generate_embeddings_Failed
      similarities == Similarities(faq_documents, ActiveList(faq_documents, 1),
                                   query_embedding, min_similarity)
  IN /\ answered' = [route |-> "search_similar_faqs",
                     args |-> <<query, top_k, min_similarity>>,
                     status |-> 200,
                     body |-> Prefix(SortBySimilarity(similarities), top_k)]
     /\ UNCHANGED <<faq_documents, FAQ_DATASET, users, sessions, messages,
                    escalations, turns, run, upload, storeFailures, searched,
                    attempts, conversation_metrics>>

\* Rows as process_faq_pdf and the upload route store them: the embedding
\* of the question and the answer, the zero vector of a failed encoding, or
\* no embedding
EmbeddedRow(question, embedding, is_active) ==
  [question |-> question, answer |-> <<"answer">>, keywords |-> <<>>,
   embedding |-> embedding, is_active |-> is_active]

SemanticRows ==
  { EmbeddedRow(<<"a">>, generate_embeddings(<<"a", " ", "answer">>), TRUE),
    EmbeddedRow(<<"a", " ", "b">>,
                generate_embeddings(<<"a", " ", "b", " ", "answer">>), TRUE),
    EmbeddedRow(<<"a">>, NoEmbedding, TRUE),
    EmbeddedRow(<<"a">>, generate_embeddings_Failed, TRUE),
    EmbeddedRow(<<"a">>, generate_embeddings(<<"a", " ", "answer">>), FALSE) }

SemanticQueries == { <<"a">>, <<"a", " ", "b">> }
TopKs == {0, 1, 2}
MinSimilarities == {0, 300, 800}

InitSemantic ==
  /\ faq_documents \in UNION {[1..k -> SemanticRows] : k \in 0..MaxRows}
  /\ FAQ_DATASET = <<>>
  /\ users = <<>>
  /\ sessions = <<>>
  /\ messages = <<>>
  /\ escalations = <<>>
  /\ turns = [t \in TurnIds |-> IdleTurn]
  /\ run = NoRun
  /\ upload = [u \in UploadIds |-> IdleUpload]
  /\ storeFailures = 0
  /\ searched = NoSearch
  /\ attempts = [t \in TurnIds |-> NoAttempts]
  /\ conversation_metrics = <<>>
  /\ answered = NoAnswer

\* One call of the function on the stored table: the function reads the
\* table and writes nothing, so a second call sees what the first saw
NextSemantic ==
  \E query \in SemanticQueries, encodes \in BOOLEAN, top_k \in TopKs,
     min_similarity \in MinSimilarities :
    answered = NoAnswer /\ search_similar_faqs(query, encodes, top_k, min_similarity)

SpecSemantic == InitSemantic /\ [][NextSemantic]_vars

(* ------------------------------------------------------------------ *)
(* Properties                                                           *)
(* ------------------------------------------------------------------ *)
Done(t) == turns[t].pc = "done"

TicketsOf(t) == {e \in 1..Len(escalations) : escalations[e].turn = t}

BotMessagesOf(t) ==
  {i \in 1..Len(messages) : messages[i].turn = t /\ messages[i].sender = "bot"}

ResponseTypes == {"faq", "ai_generated", "escalated", "out_of_scope"}
Escalating == {"escalated", "out_of_scope"}

\* C1: a completed chat turn has exactly one of the four outcomes (one stored
\* bot message, of one of the four response types, the type of the response),
\* and it has created exactly one escalation ticket if the outcome is one of
\* the two escalations and none otherwise.
C1_OneOutcomeTicketIffEscalated ==
  \A t \in TurnIds : Done(t) =>
    /\ turns[t].response.response_type \in ResponseTypes
    /\ Cardinality(BotMessagesOf(t)) = 1
    /\ \A i \in BotMessagesOf(t) :
         messages[i].response_type = turns[t].response.response_type
    /\ Cardinality(TicketsOf(t)) =
         IF turns[t].response.response_type \in Escalating THEN 1 ELSE 0

C1_Witness ==
  \E t, u \in TurnIds :
    /\ Done(t) /\ turns[t].response.response_type \in Escalating
    /\ Done(u) /\ turns[u].response.response_type \notin Escalating
    /\ TicketsOf(t) # {} /\ TicketsOf(u) = {}

\* C2: the turns of one session are serialized: between the user messages of
\* two turns of a session lies the bot message of the earlier turn (unless
\* that turn ended without a response).
C2_TurnsOfASessionSerialized ==
  \A i, j \in 1..Len(messages) :
    ( /\ i < j
      /\ messages[i].sender = "user" /\ messages[j].sender = "user"
      /\ messages[i].session_id = messages[j].session_id
      /\ messages[i].turn # messages[j].turn
      /\ turns[messages[i].turn].pc \notin {"fault", "cancelled"} )
    => \E k \in (i + 1)..(j - 1) :
         messages[k].sender = "bot" /\ messages[k].turn = messages[i].turn

\* C3: every session has at most one pending escalation ticket.
C3_AtMostOneOpenTicket ==
  \A s \in 1..Len(sessions) :
    Cardinality({e \in 1..Len(escalations) :
                   escalations[e].session_id = s
                   /\ escalations[e].status = "pending"}) <= 1

\* C4: the store never holds an escalation ticket without the bot message of
\* the turn that created it.
C4_TicketNeverWithoutMessage ==
  \A e \in 1..Len(escalations) : BotMessagesOf(escalations[e].turn) # {}

\* C5: a turn that loaded the knowledge set while an ingestion was in flight
\* matched against the complete active set from before that ingestion or the
\* complete active set after it.
C5_CompleteSetBeforeOrAfter ==
  ( /\ run.step = "start"
    /\ run.loadedDuring # 0
    /\ upload[run.loadedDuring].pc = "done"
    /\ upload[run.loadedDuring].ok )
  => run.loaded \in {upload[run.loadedDuring].before,
                     upload[run.loadedDuring].after}

\* The provider call of the latest run raised
ProviderFailed == run.classified = "raised" \/ run.generation = "raised"

\* C6: a turn whose provider call failed, in classification or in generation,
\* does not surface that failure: it is completed, with an escalation
\* response, one ticket and one stored bot message, unless a commit of the
\* storage layer failed.
C6_ProviderFailureEscalates ==
  ProviderFailed =>
    LET t == run.turn
    IN /\ turns[t].pc \in {"done", "fault"}
       /\ turns[t].pc = "fault" => turns[t].error = "PersistenceError"
       /\ Done(t) =>
            /\ turns[t].response.response_type \in Escalating
            /\ turns[t].response.response_type = "escalated"
                 <=> run.generation = "raised"
            /\ turns[t].response.requires_escalation
            /\ Cardinality(TicketsOf(t)) = 1
            /\ Cardinality(BotMessagesOf(t)) = 1

C6_Witness ==
  /\ run.generation = "raised"
  /\ Done(run.turn)
  /\ turns[run.turn].response.response_type = "escalated"
  /\ \E u \in TurnIds :
       Done(u) /\ turns[u].response.response_type = "out_of_scope"

\* C7: when the provider raises, or no JSON object can be decoded from its
\* text, the classification is (false, "", 0.0): the turn never reaches answer
\* generation and a completed turn is an off-topic escalation.
C7_ClassifierFailsClosed ==
  run.classified \in {"raised", "unparsed"} =>
    LET t == run.turn
    IN /\ run.verdict = FailClosed
       /\ turns[t].pc \in {"done", "fault"}
       /\ turns[t].pc = "fault" => turns[t].error = "PersistenceError"
       /\ Done(t) => turns[t].response.response_type = "out_of_scope"

C7_Witness ==
  /\ run.classified = "unparsed"
  /\ Done(run.turn)
  /\ Cardinality(TicketsOf(run.turn)) = 1

\* C8: a decoded object whose is_related is no boolean or whose confidence is
\* no number is treated like a provider failure: no fault, no answer
\* generation, a completed turn is an off-topic escalation.
C8_UntypedVerdictFailsClosed ==
  run.classified = "untyped" =>
    LET t == run.turn
    IN /\ turns[t].pc # "generate"
       /\ turns[t].error # "TypeError"
       /\ Done(t) => turns[t].response.response_type = "out_of_scope"

\* C9: a turn whose keyword matcher accepted an entry calls no provider and
\* creates no ticket; completed, its response is that entry's answer with
\* response_type "faq" and the matcher's confidence, and its stored bot
\* message references exactly that entry.
C9_AcceptedMatchIsFaqMatched ==
  (run.step = "start" /\ run.faq.found) =>
    LET t == run.turn
        faq == run.faq
    IN /\ turns[t].pc \in {"done", "fault"}
       /\ turns[t].pc = "fault" => turns[t].error = "PersistenceError"
       /\ TicketsOf(t) = {}
       /\ Done(t) =>
            /\ turns[t].response.bot_response = faq_documents[faq.id].answer
            /\ turns[t].response.response_type = "faq"
            /\ turns[t].response.confidence_score = faq.confidence
            /\ ~turns[t].response.requires_escalation
            /\ Cardinality(BotMessagesOf(t)) = 1
            /\ \A i \in BotMessagesOf(t) :
                 /\ messages[i].relevant_faq_ids = <<faq.id>>
                 /\ messages[i].content = faq_documents[faq.id].answer
                 /\ messages[i].response_type = "faq"
                 /\ messages[i].confidence_score = faq.confidence

C9_Witness ==
  /\ run.step = "start" /\ run.faq.found
  /\ run.faq.confidence < DirectConfidence
  /\ Done(run.turn)
  /\ \E u \in TurnIds :
       /\ Done(u) /\ turns[u].response.response_type = "faq"
       /\ turns[u].response.confidence_score = DirectConfidence

\* The verdict the latest run acted on is well typed and related
RelatedVerdict ==
  /\ run.verdict.is_related = JBool(TRUE)
  /\ run.verdict.confidence.t = "num"
  /\ run.verdict.confidence.n >= RelevanceThreshold

C11_GenerationFailureEscalatesRelated ==
  (run.step = "generate" /\ RelatedVerdict /\ run.generation = "raised") =>
    LET t == run.turn
    IN /\ turns[t].pc \in {"done", "fault"}
       /\ turns[t].pc = "fault" => turns[t].error = "PersistenceError"
       /\ Done(t) =>
            /\ turns[t].response.response_type = "escalated"
            /\ turns[t].response.confidence_score = 0
            /\ turns[t].response.requires_escalation
            /\ Cardinality(TicketsOf(t)) = 1
            /\ \A e \in TicketsOf(t) :
                 /\ escalations[e].priority = "normal"
                 /\ escalations[e].status = "pending"
                 /\ sessions[escalations[e].session_id].status = "escalated"
                 /\ \A i \in BotMessagesOf(t) :
                      messages[i].session_id = escalations[e].session_id

C11_Witness ==
  /\ run.step = "generate" /\ RelatedVerdict /\ run.generation = "raised"
  /\ run.verdict.confidence.n = 800
  /\ Done(run.turn)
  /\ \E e \in TicketsOf(run.turn) : escalations[e].priority = "normal"

\* The latest run read a classification that is a well-typed verdict or the
\* fail-closed one
ReadableVerdict ==
  run.step = "classify" /\ run.classified \in {"typed", "raised", "unparsed"}

\* C12: without a match, a verdict that is not related or has a confidence
\* below 0.6 makes the turn ESCALATED_OFFTOPIC (one ticket of priority "low",
\* response_type "out_of_scope", confidence 0); a related verdict of
\* confidence 0.6 or more goes on to answer generation and creates no ticket
\* in that run.
C12_UnrelatedOrBelowThresholdIsOfftopic ==
  ReadableVerdict =>
    LET t == run.turn
    IN IF RelatedVerdict
         THEN turns[t].pc = "generate" /\ TicketsOf(t) = {}
         ELSE /\ turns[t].pc \in {"done", "fault"}
              /\ turns[t].pc = "fault" => turns[t].error = "PersistenceError"
              /\ Done(t) =>
                   /\ turns[t].response.response_type = "out_of_scope"
                   /\ turns[t].response.confidence_score = 0
                   /\ Cardinality(TicketsOf(t)) = 1
                   /\ \A e \in TicketsOf(t) : escalations[e].priority = "low"

C12_Witness ==
  /\ ReadableVerdict /\ run.classified = "typed"
  /\ run.verdict.is_related = JBool(TRUE)
  /\ run.verdict.confidence.n = 500
  /\ Done(run.turn)
  /\ \E e \in TicketsOf(run.turn) : escalations[e].priority = "low"

\* C13: a session's status is "escalated" if and only if a completed turn of
\* the session (one whose bot message is stored) ended in one of the two
\* escalations.
C13_EscalatedIffEscalationCompleted ==
  \A s \in 1..Len(sessions) :
    sessions[s].status = "escalated"
      <=> \E i \in 1..Len(messages) :
            /\ messages[i].session_id = s
            /\ messages[i].sender = "bot"
            /\ messages[i].response_type \in Escalating

\* The session a turn belongs to: the one of its user message
SessionOf(t) ==
  {messages[i].session_id : i \in {j \in 1..Len(messages) :
                                     messages[j].turn = t
                                     /\ messages[j].sender = "user"}}

\* C14: a completed turn has stored exactly one bot message, in the turn's
\* session, carrying the response's text, response_type and confidence.
C14_OneBotMessagePerCompletedTurn ==
  \A t \in TurnIds : Done(t) =>
    /\ Cardinality(BotMessagesOf(t)) = 1
    /\ \A i \in BotMessagesOf(t) :
         /\ messages[i].session_id \in SessionOf(t)
         /\ messages[i].content = turns[t].response.bot_response
         /\ messages[i].response_type = turns[t].response.response_type
         /\ messages[i].confidence_score = turns[t].response.confidence_score
         /\ messages[i].confidence_score # NoConf

C14_Witness ==
  \E t, u \in TurnIds :
    /\ Done(t) /\ Done(u)
    /\ SessionOf(t) # SessionOf(u)
    /\ turns[t].response.response_type = "ai_generated"
    /\ turns[u].response.response_type = "out_of_scope"
    /\ Cardinality(BotMessagesOf(t)) = 1 /\ Cardinality(BotMessagesOf(u)) = 1

\* C15: the keyword matcher returns either no match with confidence 0, or an
\* active entry with a confidence between 0.5 and 1; it raises for no query
\* and no entry set, entries with an empty or blank question included.
C15_MatcherConfidenceInRange ==
  searched.done =>
    IF searched.result.found
      THEN /\ searched.result.confidence >= AcceptThreshold
           /\ searched.result.confidence <= 1000
           /\ searched.result.id \in ActiveIds(faq_documents)
           /\ searched.result.answer = faq_documents[searched.result.id].answer
      ELSE searched.result = NoMatch

C15_Witness ==
  /\ searched.done /\ searched.result.found
  /\ searched.result.confidence = 600
  /\ \E i \in ActiveIds(faq_documents) : faq_documents[i].question = <<" ">>
  /\ \E i \in ActiveIds(faq_documents) : faq_documents[i].question = <<"c">>

\* C16: a query equal, up to letter case, to the question of an active entry
\* makes the matcher return confidence 0.9 and the id of that entry.
C16_ExactQuestionReturnsItsEntry ==
  searched.done =>
    \A i \in ActiveIds(faq_documents) :
      LowerStr(searched.query) = LowerStr(faq_documents[i].question) =>
        /\ searched.result.found
        /\ searched.result.confidence = DirectConfidence
        /\ searched.result.id = i

\* The confidence the loop of search_faq_dataset gives a row on its own
EntryScore(query, i) ==
  search_faq_dataset(query,
    load_faq_dataset([j \in 1..i |->
      IF j = i THEN faq_documents[i]
      ELSE [faq_documents[j] EXCEPT !.is_active = FALSE]])).confidence

\* C17: of the active entries that reach the highest confidence for a query,
\* the matcher returns the one with the lowest id.
C17_TieGoesToLowestId ==
  (searched.done /\ searched.result.found) =>
    \A i \in ActiveIds(faq_documents) :
      EntryScore(searched.query, i) = searched.result.confidence
        => searched.result.id <= i

\* C18: only active entries take part in matching.  A chat turn that ends in
\* FAQ_MATCHED answers with an entry that is active when the turn runs; a
\* clear-all leaves no active entry and an empty dataset; and the set of
\* active entries gains an entry only by an ingestion that succeeds.
C18_OnlyActiveEntriesMatch ==
  [][ /\ (run' # run /\ run'.step = "start" /\ run'.faq.found) =>
           /\ run'.faq.id \in ActiveIds(faq_documents)
           /\ run'.faq.answer = faq_documents[run'.faq.id].answer
           /\ run'.loaded \subseteq ActiveIds(faq_documents)
      /\ clear_all_faqs =>
           ActiveIds(faq_documents') = {} /\ FAQ_DATASET' = <<>>
      /\ ~(ActiveIds(faq_documents') \subseteq ActiveIds(faq_documents)) =>
           \E u \in UploadIds : upload[u].pc = "reading" /\ upload'[u].ok
    ]_vars

\* A turn answers from entry 2 with a word match although the deleted entry 1
\* contains the query
C18_Witness ==
  /\ run.step = "start" /\ run.faq.found
  /\ run.faq.id = 2 /\ run.faq.confidence < DirectConfidence
  /\ ~faq_documents[1].is_active /\ faq_documents[2].is_active
  /\ Done(run.turn)
  /\ \E i \in 1..Len(messages) :
       /\ messages[i].turn = run.turn /\ messages[i].sender = "user"
       /\ IsSubstring(LowerStr(messages[i].content),
                      LowerStr(faq_documents[1].question))

\* C19: when an ingestion has succeeded, the active entries are exactly the
\* entries created from its batch, and no entry that was active before it is
\* active.
C19_IngestionReplacesActiveSet ==
  \A u \in UploadIds : upload[u].ok =>
    /\ upload[u].after = upload[u].created
    /\ upload[u].before \cap upload[u].after = {}

\* C20: knowledge entries are never removed and never reactivated: every step
\* keeps the stored rows with their question and answer, and an inactive row
\* stays inactive.
C20_EntriesOnlyGrowAndDeactivate ==
  [][ /\ Len(faq_documents') >= Len(faq_documents)
      /\ \A i \in 1..Len(faq_documents) :
           /\ faq_documents'[i].question = faq_documents[i].question
           /\ faq_documents'[i].answer = faq_documents[i].answer
           /\ faq_documents'[i].is_active => faq_documents[i].is_active
    ]_vars

\* Two ingestions, a delete of an entry of the second, and a chat turn
C20_Witness ==
  /\ Len(faq_documents) = 4
  /\ ActiveIds(faq_documents) = {4}
  /\ \A u \in UploadIds : upload[u].pc = "done"
  /\ \E t \in TurnIds : Done(t)

\* C21: every entry stored by knowledge ingestion has a question of at most
\* 1000 characters, an answer of at most 5000 characters, the keywords
\* computed from its text, an embedding, and is active when it is stored.
C21_StoredEntriesAreNormalized ==
  /\ \A i \in 1..Len(faq_documents) :
       /\ Len(faq_documents[i].question) <= QuestionMax
       /\ Len(faq_documents[i].answer) <= AnswerMax
       /\ faq_documents[i].keywords =
            extract_keywords(faq_documents[i].question \o <<" ">>
                               \o faq_documents[i].answer)
       /\ faq_documents[i].embedding # NoEmbedding
  /\ \A u \in UploadIds : upload[u].ok =>
       \A i \in upload[u].created :
         i \in upload[u].after /\ Len(faq_documents[i].question) <= QuestionMax


\* The messages of a session that are among the n created last
LatestOf(session, n) ==
  {i \in 1..Len(messages) :
     /\ messages[i].session_id = session
     /\ Cardinality({j \in 1..Len(messages) :
                       /\ messages[j].session_id = session
                       /\ messages[j].created_at > messages[i].created_at}) < n}

Line(m) ==
  <<IF m.sender = "user" THEN "Customer: " ELSE "Support: ">> \o m.content

\* The lines of the messages `ids`, oldest first, one line per message
RECURSIVE LinesOf(_)
LinesOf(ids) ==
  IF ids = {} THEN <<>>
  ELSE LET oldest == CHOOSE i \in ids :
                       \A j \in ids : messages[i].created_at <= messages[j].created_at
       IN Line(messages[oldest])
            \o (IF ids = {oldest} THEN <<>> ELSE <<"\n">> \o LinesOf(ids \ {oldest}))

\* C22: for every session and window size N the context builder returns the
\* min(N, count) messages of the session that were created last, oldest
\* first, each as "Customer: <content>" or "Support: <content>", and the
\* empty text for a session without messages.
C22_ContextIsTheRecentTail ==
  answered.route = "build_conversation_context" =>
    LET session == answered.args[1]
        n == answered.args[2]
        count == Len(SessionMessages(messages, session))
    IN /\ Cardinality(LatestOf(session, n)) = IF n < count THEN n ELSE count
       /\ answered.body = LinesOf(LatestOf(session, n))
       /\ count = 0 => answered.body = <<>>

\* A window of 2 on a session of 3 messages that begins with a bot line
C22_Witness ==
  /\ answered.route = "build_conversation_context"
  /\ answered.args = <<1, 2>>
  /\ Len(SessionMessages(messages, 1)) = 3
  /\ answered.body[1] = "Support: "
  /\ Len(answered.body) = 7

\* The turns that await the provider
InFlight == {t \in TurnIds : turns[t].pc \in {"classify", "generate"}}

\* C23: the context window of a turn holds prior turns only: it is the
\* context of the messages stored before the turn's own message, so it does
\* not contain the message being processed and is empty for the first
\* message of a session.
C23_ContextHoldsPriorTurnsOnly ==
  \A t \in InFlight :
    \A i \in 1..Len(messages) :
      (messages[i].turn = t /\ messages[i].sender = "user") =>
        turns[t].conversation_context =
          build_conversation_context(SubSeq(messages, 1, i - 1),
                                     turns[t].session, ContextWindow)

\* C25: when the id drawn for a new ticket equals the id of a stored ticket,
\* the turn still completes with exactly one new ticket, and the ticket ids
\* stay pairwise distinct.
C25_TicketConflictIsRetried ==
  /\ run.collided =>
       Done(run.turn) /\ Cardinality(TicketsOf(run.turn)) = 1
  /\ \A e, f \in 1..Len(escalations) :
       escalations[e].escalation_id = escalations[f].escalation_id => e = f

\* C29: metrics recomputation is an idempotent upsert keyed by session: a
\* recomputation leaves exactly one metrics record for the session, and when
\* the session has a record and its messages and status are unchanged, the
\* recomputation leaves the record, and the table, as they are.
C29_MetricsRecomputationIsIdempotent ==
  [][ \A session \in 1..Len(sessions) :
        update_conversation_metrics(session) =>
          /\ Cardinality({i \in 1..Len(conversation_metrics') :
                            conversation_metrics'[i].session_id = session}) = 1
          /\ \A i \in 1..Len(conversation_metrics') :
               conversation_metrics'[i].session_id = session =>
                 conversation_metrics'[i] =
                   MetricsRow(session, get_conversation_metrics(session, messages))
          /\ MetricsOf(session) # {} =>
               conversation_metrics' = conversation_metrics
    ]_vars

\* Both sessions have their record, the first computed from 3 messages
C29_Witness ==
  /\ Len(conversation_metrics) = 2
  /\ \A session \in 1..2 : Cardinality(MetricsOf(session)) = 1
  /\ \E i \in MetricsOf(1) :
       /\ conversation_metrics[i].total_messages = 3
       /\ conversation_metrics[i].bot_messages = 1
       /\ conversation_metrics[i].resolution_time_minutes = 3

\* C30: the duration is absent when the session has fewer than 2 messages,
\* and otherwise the whole minutes between the earliest and the latest
\* creation time of its messages.
C30_DurationAbsentBelowTwoMessages ==
  \A r \in 1..Len(conversation_metrics) :
    LET session == conversation_metrics[r].session_id
        own == {i \in 1..Len(messages) : messages[i].session_id = session}
        earliest == CHOOSE i \in own :
                      \A j \in own : messages[i].created_at <= messages[j].created_at
        latest == CHOOSE i \in own :
                    \A j \in own : messages[j].created_at <= messages[i].created_at
    IN conversation_metrics[r].resolution_time_minutes =
         IF Cardinality(own) < 2 THEN NoDuration
         ELSE (messages[latest].created_at - messages[earliest].created_at) \div 60

\* C26: a chat request whose message is empty or longer than 5000 characters,
\* or whose session_id or customer_id is empty, is rejected before matching
\* with no side effects: no user, session, message or ticket is created, the
\* dataset is not reloaded and the turn never calls the provider.
C26_InvalidRequestHasNoEffect ==
  [][ \A t \in TurnIds, s \in RequestSessionIds, c \in RequestCustomerIds,
         m \in RequestMessages :
        (chat(t, s, c, m, "none")
           /\ (m = <<>> \/ Len(m) > 5000 \/ s = "" \/ c = "")) =>
          /\ turns'[t].pc = "rejected"
          /\ turns'[t].error = "ValidationError"
          /\ UNCHANGED <<users, sessions, messages, escalations, faq_documents,
                         FAQ_DATASET, attempts, conversation_metrics>>
    ]_vars

\* A request is rejected after a turn has completed on a stored session
C26_Witness ==
  /\ run.step = "reject"
  /\ turns[run.turn].pc = "rejected"
  /\ \E t \in TurnIds : Done(t)
  /\ Len(sessions) = 1 /\ Len(messages) = 2

\* C27: a transcript read for an unknown session id and a delete of an
\* unknown entry id are answered not found and leave the stored state and
\* the in-memory dataset as they are.
C27_NotFoundChangesNothing ==
  [][ /\ \A s \in ReadSessionIds :
           (get_session_messages(s)
              /\ ~\E i \in 1..Len(sessions) : sessions[i].session_id = s) =>
             /\ answered'.status = 404
             /\ UNCHANGED <<users, sessions, messages, escalations,
                            faq_documents, FAQ_DATASET, conversation_metrics>>
      /\ \A id \in DeleteIds :
           (delete_faq(id) /\ id \notin 1..Len(faq_documents)) =>
             /\ answered'.status = 404
             /\ UNCHANGED <<users, sessions, messages, escalations,
                            faq_documents, FAQ_DATASET, conversation_metrics>>
    ]_vars

\* A delete of an unknown id is answered 404 while the dataset in memory
\* differs from what a reload would give
C27_Witness ==
  /\ answered.route = "delete_faq" /\ answered.status = 404
  /\ FAQ_DATASET # load_faq_dataset(faq_documents)
  /\ Len(faq_documents) = 2
  /\ Len(sessions) = 1

\* The session a turn has stored its message in, 0 if it has stored none
StoredSessionOf(t) ==
  IF \E i \in 1..Len(messages) : messages[i].turn = t
    THEN messages[CHOOSE i \in 1..Len(messages) : messages[i].turn = t].session_id
    ELSE 0

\* C28: a transcript read for an existing session returns every message of
\* the session and no other, in non-decreasing creation order; when the k
\* turns of the session have all completed it returns k user and k bot
\* messages, and the user message of a turn precedes its bot response.
C28_TranscriptIsTheSessionInOrder ==
  [][ \A s \in ReadSessionIds :
        (get_session_messages(s)
           /\ \E i \in 1..Len(sessions) : sessions[i].session_id = s) =>
          LET session == SessionRowId(sessions, s)
              body == answered'.body
              own == {i \in 1..Len(messages) : messages[i].session_id = session}
              mine == {t \in TurnIds : StoredSessionOf(t) = session}
              At(i) == CHOOSE n \in 1..Len(body) : body[n].id = i
          IN /\ answered'.status = 200
             /\ Len(body) = Cardinality(own)
             /\ {body[n].id : n \in 1..Len(body)} = own
             /\ \A n \in 1..Len(body) :
                  /\ body[n].sender = messages[body[n].id].sender
                  /\ body[n].content = messages[body[n].id].content
                  /\ body[n].created_at = messages[body[n].id].created_at
             /\ \A n, k \in 1..Len(body) :
                  n < k => body[n].created_at <= body[k].created_at
             /\ (\A t \in mine : Done(t)) =>
                  /\ Cardinality({n \in 1..Len(body) : body[n].sender = "user"})
                       = Cardinality(mine)
                  /\ Cardinality({n \in 1..Len(body) : body[n].sender = "bot"})
                       = Cardinality(mine)
                  /\ \A i, j \in own :
                       (messages[i].turn = messages[j].turn
                          /\ messages[i].sender = "user"
                          /\ messages[j].sender = "bot") => At(i) < At(j)
    ]_vars

\* The transcript of a session after two completed turns
C28_Witness ==
  /\ answered.route = "get_session_messages" /\ answered.status = 200
  /\ Len(answered.body) = 4
  /\ \A t \in TurnIds : Done(t)
  /\ Len(messages) = 4

\* C24: a provider call is attempted at most 3 times, returns the text of
\* the first attempt that succeeds and raises only after a third failed
\* attempt; a turn issues at most 6 requests, and a turn that has left the
\* handler has left it with a response.
C24_BoundedAttemptsAndAResponse ==
  \A t \in TurnIds :
    /\ attempts[t].tries < 3
    /\ attempts[t].last <= 3
    /\ attempts[t].requests <= 6
    /\ (run.turn = t /\ (run.classified = "raised" \/ run.generation = "raised")) =>
         attempts[t].last = 3
    /\ turns[t].pc \notin {"idle", "classify", "generate"} => Done(t)

\* The bounds on the attempts of a call and on the requests of a turn, and
\* the one way a turn leaves the handler without a response
AttemptsAreBounded ==
  \A t \in TurnIds :
    /\ attempts[t].tries < 3
    /\ attempts[t].last <= 3
    /\ attempts[t].requests <= 6
    /\ (run.turn = t /\ (run.classified = "raised" \/ run.generation = "raised")) =>
         attempts[t].last = 3
    /\ turns[t].pc = "fault" => turns[t].error = "TypeError"

\* A turn completes after three attempts of each of its two calls
SixRequests ==
  \E t \in TurnIds : Done(t) /\ attempts[t].requests = 6

\* The pairs returned by the latest semantic search
Found == answered.body

EscalatedBefore(t) ==
  \E i, j \in 1..Len(messages) :
    /\ i < j
    /\ messages[i].sender = "bot"
    /\ messages[i].response_type \in Escalating
    /\ messages[j].sender = "user"
    /\ messages[j].turn = t
    /\ messages[j].session_id = messages[i].session_id

\* C32: a chat turn on a session that has been escalated is accepted and
\* routed like any other: once it has left the handler (the client not
\* having disconnected) it has completed with a response of one of the
\* four types.
C32_EscalatedSessionKeepsAcceptingTurns ==
  \A t \in TurnIds :
    (EscalatedBefore(t) /\ turns[t].pc \notin {"classify", "generate", "cancelled"}) =>
      /\ Done(t)
      /\ turns[t].response.response_type \in ResponseTypes

\* A turn on an escalated session leaves the handler without a response
\* only through a fault that any turn can meet
EscalatedSessionIsServed ==
  \A t \in TurnIds :
    (EscalatedBefore(t) /\ turns[t].pc \notin {"classify", "generate", "cancelled"}) =>
      \/ Done(t) /\ turns[t].response.response_type \in ResponseTypes
      \/ turns[t].pc = "fault" /\ turns[t].error \in {"TypeError", "PersistenceError"}

\* A turn on an escalated session is answered by generation
EscalatedThenAnswered ==
  \E t \in TurnIds :
    EscalatedBefore(t) /\ Done(t) /\ turns[t].response.response_type = "ai_generated"

\* A turn on an escalated session is escalated again
EscalatedTwice ==
  \E t \in TurnIds :
    EscalatedBefore(t) /\ Done(t) /\ turns[t].response.response_type \in Escalating

\* The largest number of a set of confidences, 0 for none
MaxOf(scores) ==
  IF scores = {} THEN 0 ELSE CHOOSE x \in scores : \A y \in scores : y <= x

\* The scores the three rules give a stored entry for a query: 0.9 for
\* containment in either direction, 0.6 + 0.3 * matched/total with matched
\* the number of distinct words that query and question share, and
\* 0.5 + 0.2 * matched/total over the entry's keywords
RuleScores(query, row) ==
  LET query_lower == LowerStr(query)
      question == LowerStr(row.question)
      question_words == Split(question)
      query_words == Split(query_lower)
      shared == {question_words[i] : i \in 1..Len(question_words)}
                  \cap {query_words[i] : i \in 1..Len(query_words)}
      matched_keywords ==
        Cardinality({i \in 1..Len(row.keywords) :
                       IsSubstring(LowerStr(row.keywords[i]), query_lower)})
  IN (IF IsSubstring(query_lower, question) \/ IsSubstring(question, query_lower)
        THEN {DirectConfidence} ELSE {})
     \cup (IF shared # {}
             THEN {WordConfidence(Cardinality(shared), Len(question_words))}
             ELSE {})
     \cup (IF matched_keywords > 0
             THEN {KeywordConfidence(matched_keywords, Len(row.keywords))}
             ELSE {})

\* C33: the confidence the keyword matcher returns is the highest score
\* that the three rules give any active entry for the query.
C33_ConfidenceIsTheBestRuleScore ==
  searched.done =>
    searched.result.confidence =
      MaxOf(UNION {RuleScores(searched.query, faq_documents[i]) :
                     i \in ActiveIds(faq_documents)})

\* The text of the request of turn t, as stored in its user message
MessageOf(t) ==
  messages[CHOOSE i \in 1..Len(messages) :
             messages[i].turn = t /\ messages[i].sender = "user"].content

\* No rule gives entry i a score for the text
Scoreless(text, i) == RuleScores(text, faq_documents[i]) = {}

CalledProvider(t) ==
  attempts[t].requests > 0 \/ turns[t].pc \in {"classify", "generate"}

C36_TicketUserIsSessionOwner ==
  [][ /\ \A e \in 1..Len(escalations') :
           escalations'[e].user_id = sessions'[escalations'[e].session_id].user_id
      /\ \A i \in 1..Len(sessions) : sessions'[i].user_id = sessions[i].user_id
    ]_vars

\* No step changes the owner of a stored session
OwnerNeverChanges ==
  [][\A i \in 1..Len(sessions) : sessions'[i].user_id = sessions[i].user_id]_vars

\* C37: after a load the in-memory dataset holds exactly one item per
\* active entry: as many items as active entries, with exactly the active
\* ids, questions equal up to case included.
C37_DatasetHoldsEveryActiveEntry ==
  searched.done =>
    /\ Len(FAQ_DATASET) = Cardinality(ActiveIds(faq_documents))
    /\ {FAQ_DATASET[i].id : i \in 1..Len(FAQ_DATASET)} = ActiveIds(faq_documents)

\* C38: an ingestion that fails leaves the set of active entries as it was
\* when the request arrived.
C38_FailedIngestionKeepsActiveSet ==
  [][\A u \in UploadIds :
       (upload[u].pc = "reading" /\ upload'[u].pc = "done" /\ ~upload'[u].ok) =>
         ActiveIds(faq_documents') = upload[u].before
    ]_vars

\* The store without the messages of the sessions other than `session`
OnlySession(session) == SelectSeq(messages, LAMBDA m : m.session_id = session)

\* The name that tells the content of a stored message from every other
NamesIn(text) == {text[k] : k \in 1..Len(text)} \cap {Names[n] : n \in 1..Len(Names)}

\* C39: the context built for a session is the context built from the store
\* that holds the messages of that session alone, so two stores that agree
\* on the session give the same context; and no content of a message of
\* another session occurs in it.
C39_ContextDependsOnOwnSessionOnly ==
  answered.route = "build_conversation_context" =>
    LET session == answered.args[1]
        n == answered.args[2]
    IN /\ answered.body = build_conversation_context(OnlySession(session), session, n)
       /\ \A i \in 1..Len(messages) :
            messages[i].session_id # session =>
              NamesIn(messages[i].content) \cap NamesIn(answered.body) = {}

\* The context of a session of one message, built while the other session
\* holds the two messages stored last, within the window
C39_Witness ==
  /\ answered.route = "build_conversation_context"
  /\ answered.args = <<1, ContextWindow>>
  /\ Len(OnlySession(1)) = 1
  /\ Len(OnlySession(2)) = 2
  /\ messages[1].session_id = 1
  /\ NamesIn(answered.body) = {"m1"}

\* C40: the fields of every chat response agree: requires_escalation holds
\* exactly for the types "escalated" and "out_of_scope", exactly those have
\* confidence 0, every other response is "faq" or "ai_generated" with a
\* confidence between 0.5 and 1, and the bot message stored for the turn
\* carries the type and the confidence of the response.
C40_ResponseFieldsAgree ==
  \A t \in TurnIds : Done(t) =>
    LET r == turns[t].response
    IN /\ r.requires_escalation <=> r.response_type \in Escalating
       /\ r.confidence_score = 0 <=> r.response_type \in Escalating
       /\ r.response_type \notin Escalating =>
            /\ r.response_type \in {"faq", "ai_generated"}
            /\ r.confidence_score >= AcceptThreshold
            /\ r.confidence_score <= 1000
       /\ BotMessagesOf(t) # {}
       /\ \A i \in BotMessagesOf(t) :
            /\ messages[i].response_type = r.response_type
            /\ messages[i].confidence_score = r.confidence_score

\* One turn was answered from the knowledge base on a word match of
\* confidence 0.75, the other was escalated after its generation failed
C40_Witness ==
  \E t, u \in TurnIds :
    /\ Done(t) /\ turns[t].response.response_type = "faq"
    /\ turns[t].response.confidence_score = 750
    /\ Done(u) /\ turns[u].response.response_type = "escalated"
    /\ turns[u].response.requires_escalation
====
